---- MODULE Spec2Model ----
(***************************************************************************)
(* Knowledge-graph construction of the study-assistant backend             *)
(* (ai-assistant-backend/app.py): concept normalizer, concept extractors,  *)
(* knowledge node store, tree merge (mind_map_generate), co-occurrence     *)
(* builder and the background note-summary job registry.                   *)
(*                                                                         *)
(* Text is modelled as a sequence of characters.  A character is a string  *)
(* token: an ASCII letter or digit stands for itself, any other character  *)
(* is written "uXXXX" after its code point ("u0020" is the space,          *)
(* "uFF1A" the full-width colon).                                          *)
(***************************************************************************)
EXTENDS Integers, Sequences, FiniteSets, TLC

VARIABLES
    knowledge_nodes,   \* table knowledge_nodes: row i is the node with id i
    notes,             \* table note_assistant_entries, in creation order
    errors,            \* table error_book_entries, in creation order
    now,               \* datetime.utcnow(), a logical clock
    snapshots,         \* number of rows of table mind_map_snapshots
    ops,               \* numbers of operations performed so far, by kind
    lastCall,          \* the request served last, with its arguments
    lastResult,        \* the response of the request served last
    normIn,            \* normalizer harness: the input text
    normOut,           \* normalizer harness: the text after the passes made
    normPasses,        \* normalizer harness: number of passes made
    running,           \* _NOTE_SUMMARY_RUNNING
    noteStatus,        \* NoteAssistantEntry.status of each note entry
    reqs,              \* summarize requests in flight, by position
    jobs,              \* background job threads, by position
    started,           \* number of job threads started so far
    lastStart,         \* last return value of start_note_summary_job
    callers,           \* get_or_create_knowledge_node calls in flight, by caller
    bind_requests,     \* table bind_requests: row i is the request with id i
    linked_user_id     \* column linked_user_id of table users, by user id

vars == <<knowledge_nodes, notes, errors, now, snapshots, ops, lastCall, lastResult,
          normIn, normOut, normPasses,
          running, noteStatus, reqs, jobs, started, lastStart, callers,
          bind_requests, linked_user_id>>

graphVars == <<knowledge_nodes, notes, errors, now, snapshots, ops, lastCall, lastResult>>
normVars == <<normIn, normOut, normPasses>>
jobVars == <<running, noteStatus, reqs, jobs, started, lastStart>>
bindVars == <<bind_requests, linked_user_id>>

(***************************************************************************)
(* Text helpers (Python str methods used by the source).                   *)
(***************************************************************************)

\* characters for which str.isspace() holds: stripped by str.strip() and
\* matched by \s
Whitespace ==
    {"u0020", "u0009", "u000A", "u000B", "u000C", "u000D", "u001C", "u001D",
     "u001E", "u001F", "u0085", "u00A0", "u3000"}

\* the argument of the second strip of _normalize_concept_name
TailPunctuation ==
    {"u0020", "u0009", "u000D", "u000A", "uFF0C", "u3002", "uFF1B", "u003B",
     "uFF1A", "u003A", "u3001", "u002D", "u2014"}

\* s[:n]
Prefix(s, n) == SubSeq(s, 1, IF Len(s) < n THEN Len(s) ELSE n)

\* s.strip(cs): drops the characters of cs at both ends
StripChars(s, cs) ==
    IF \A i \in 1..Len(s) : s[i] \in cs
    THEN <<>>
    ELSE LET lo == CHOOSE i \in 1..Len(s) :
                       s[i] \notin cs /\ \A k \in 1..(i - 1) : s[k] \in cs
             hi == CHOOSE j \in 1..Len(s) :
                       s[j] \notin cs /\ \A k \in (j + 1)..Len(s) : s[k] \in cs
         IN  SubSeq(s, lo, hi)

\* s.strip()
Strip(s) == StripChars(s, Whitespace)

\* re.sub(r'\s+', ' ', s)
RECURSIVE CollapseWhitespace(_)
CollapseWhitespace(s) ==
    IF s = <<>> THEN <<>>
    ELSE IF Head(s) \in Whitespace
         THEN IF Len(s) > 1 /\ s[2] \in Whitespace
              THEN CollapseWhitespace(Tail(s))
              ELSE <<"u0020">> \o CollapseWhitespace(Tail(s))
         ELSE <<Head(s)>> \o CollapseWhitespace(Tail(s))

\* s.startswith(p)
StartsWith(s, p) == Len(p) <= Len(s) /\ SubSeq(s, 1, Len(p)) = p

\* sub in s
Contains(s, sub) ==
    \E i \in 1..(Len(s) - Len(sub) + 1) : SubSeq(s, i, i + Len(sub) - 1) = sub

\* s.find(c) for one character, 0 when absent (the model counts from 1)
FindChar(s, c) ==
    IF \E i \in 1..Len(s) : s[i] = c
    THEN CHOOSE i \in 1..Len(s) : s[i] = c /\ \A k \in 1..(i - 1) : s[k] # c
    ELSE 0

UpperCase == <<"A", "B", "C", "D", "E", "F", "G", "H", "I", "J", "K", "L", "M",
               "N", "O", "P", "Q", "R", "S", "T", "U", "V", "W", "X", "Y", "Z">>
LowerCase == <<"a", "b", "c", "d", "e", "f", "g", "h", "i", "j", "k", "l", "m",
               "n", "o", "p", "q", "r", "s", "t", "u", "v", "w", "x", "y", "z">>

\* s.lower()
Lower(s) ==
    [i \in 1..Len(s) |->
        IF \E k \in 1..26 : UpperCase[k] = s[i]
        THEN LowerCase[CHOOSE k \in 1..26 : UpperCase[k] = s[i]]
        ELSE s[i]]

\* a list left as it is
KeepRepeated(xs) == xs

\* list(dict.fromkeys(xs)): drops repeated items, keeps the first occurrence
RECURSIVE Dedup(_)
Dedup(xs) ==
    IF xs = <<>> THEN <<>>
    ELSE LET init == Dedup(SubSeq(xs, 1, Len(xs) - 1))
             x == xs[Len(xs)]
         IN  IF \E i \in 1..Len(init) : init[i] = x THEN init ELSE Append(init, x)

(***************************************************************************)
(* Subject normalization.                                                  *)
(***************************************************************************)

SUBJECT_CHOICES ==
  << <<"u8BED", "u6587">>,
     <<"u6570", "u5B66">>,
     <<"u82F1", "u8BED">>,
     <<"u7269", "u7406">>,
     <<"u5316", "u5B66">>,
     <<"u751F", "u7269">>,
     <<"u5386", "u53F2">>,
     <<"u5730", "u7406">>,
     <<"u653F", "u6CBB">>,
     <<"u9053", "u5FB7", "u4E0E", "u6CD5", "u6CBB">>,
     <<"u79D1", "u5B66">>,
     <<"u4FE1", "u606F", "u6280", "u672F">>,
     <<"u901A", "u7528", "u6280", "u672F">>,
     <<"u4F53", "u80B2", "u4E0E", "u5065", "u5EB7">>,
     <<"u97F3", "u4E50">>,
     <<"u7F8E", "u672F">>,
     <<"u52B3", "u52A8">>,
     <<"u5FC3", "u7406", "u5065", "u5EB7">>,
     <<"u4E66", "u6CD5">>,
     <<"u7EFC", "u5408", "u5B9E", "u8DF5">>,
     <<"u7814", "u7A76", "u6027", "u5B66", "u4E60">>,
     <<"u6821", "u672C", "u8BFE", "u7A0B">>,
     <<"u5730", "u65B9", "u8BFE", "u7A0B">>,
     <<"u5C11", "u513F", "u7F16", "u7A0B">>,
     <<"u65E5", "u8BED">>,
     <<"u4FC4", "u8BED">>,
     <<"u6CD5", "u8BED">>,
     <<"u5FB7", "u8BED">>,
     <<"u7ECF", "u6D4E", "u4E0E", "u91D1", "u878D">>,
     <<"u672A", "u5206", "u7C7B">> >>

_SUBJECT_ALIASES ==
  << <<<<"u4E2D", "u6587">>, <<"u8BED", "u6587">>>>,
     <<<<"u6C49", "u8BED">>, <<"u8BED", "u6587">>>>,
     <<<<"u56FD", "u6587">>, <<"u8BED", "u6587">>>>,
     <<<<"u8BED", "u6587", "u4F5C", "u6587">>, <<"u8BED", "u6587">>>>,
     <<<<"u4F5C", "u6587">>, <<"u8BED", "u6587">>>>,
     <<<<"u6570", "u5B66", "u0028", "u5965", "u6570", "u0029">>, <<"u6570", "u5B66">>>>,
     <<<<"u5965", "u6570">>, <<"u6570", "u5B66">>>>,
     <<<<"u82F1", "u8BED", "u53E3", "u8BED">>, <<"u82F1", "u8BED">>>>,
     <<<<"u82F1", "u8BED", "u542C", "u529B">>, <<"u82F1", "u8BED">>>>,
     <<<<"u751F", "u7269", "u5B66">>, <<"u751F", "u7269">>>>,
     <<<<"u5386", "u53F2", "u5B66">>, <<"u5386", "u53F2">>>>,
     <<<<"u5730", "u7406", "u5B66">>, <<"u5730", "u7406">>>>,
     <<<<"u601D", "u60F3", "u653F", "u6CBB">>, <<"u653F", "u6CBB">>>>,
     <<<<"u601D", "u653F">>, <<"u653F", "u6CBB">>>>,
     <<<<"u9053", "u6CD5">>, <<"u9053", "u5FB7", "u4E0E", "u6CD5", "u6CBB">>>>,
     <<<<"u54C1", "u5FB7", "u4E0E", "u793E", "u4F1A">>, <<"u9053", "u5FB7", "u4E0E", "u6CD5", "u6CBB">>>>,
     <<<<"u54C1", "u5FB7", "u4E0E", "u751F", "u6D3B">>, <<"u9053", "u5FB7", "u4E0E", "u6CD5", "u6CBB">>>>,
     <<<<"u4FE1", "u606F", "u79D1", "u6280">>, <<"u4FE1", "u606F", "u6280", "u672F">>>>,
     <<<<"u8BA1", "u7B97", "u673A">>, <<"u4FE1", "u606F", "u6280", "u672F">>>>,
     <<<<"u7535", "u8111">>, <<"u4FE1", "u606F", "u6280", "u672F">>>>,
     <<<<"u4F53", "u80B2">>, <<"u4F53", "u80B2", "u4E0E", "u5065", "u5EB7">>>>,
     <<<<"u4F53", "u80B2", "u5065", "u5EB7">>, <<"u4F53", "u80B2", "u4E0E", "u5065", "u5EB7">>>>,
     <<<<"u5065", "u5EB7">>, <<"u4F53", "u80B2", "u4E0E", "u5065", "u5EB7">>>>,
     <<<<"u5FC3", "u7406">>, <<"u5FC3", "u7406", "u5065", "u5EB7">>>>,
     <<<<"u7EFC", "u5408", "u5B9E", "u8DF5", "u6D3B", "u52A8">>, <<"u7EFC", "u5408", "u5B9E", "u8DF5">>>>,
     <<<<"u7F16", "u7A0B">>, <<"u5C11", "u513F", "u7F16", "u7A0B">>>>,
     <<<<"u5176", "u4ED6">>, <<"u672A", "u5206", "u7C7B">>>>,
     <<<<"u5176", "u5B83">>, <<"u672A", "u5206", "u7C7B">>>> >>

Unclassified == <<"u672A", "u5206", "u7C7B">>

SubjectPrefixes ==
    << <<"u5B66", "u79D1", "uFF1A">>, <<"u79D1", "u76EE", "uFF1A">>,
       <<"u79D1", "u76EE", "u003A">>, <<"u5B66", "u79D1", "u003A">>,
       <<"s", "u", "b", "j", "e", "c", "t", "u003A">>,
       <<"S", "u", "b", "j", "e", "c", "t", "u003A">> >>

\* the 'English hints' of normalize_subject, in the order they are tested
EnglishHints ==
    << << <<"m", "a", "t", "h">>, <<"u6570", "u5B66">> >>,
       << <<"e", "n", "g", "l", "i", "s", "h">>, <<"u82F1", "u8BED">> >>,
       << <<"p", "h", "y", "s", "i", "c", "s">>, <<"u7269", "u7406">> >>,
       << <<"c", "h", "e", "m">>, <<"u5316", "u5B66">> >>,
       << <<"b", "i", "o">>, <<"u751F", "u7269">> >>,
       << <<"h", "i", "s", "t", "o", "r", "y">>, <<"u5386", "u53F2">> >>,
       << <<"g", "e", "o", "g", "r", "a", "p", "h", "y">>, <<"u5730", "u7406">> >> >>

\* first index of a sequence satisfying a test given as a set of indices
FirstOf(idx) == CHOOSE i \in idx : \A k \in idx : i <= k

\* None is modelled by the value NoneValue
NoneValue == <<"None">>

\* the last test: the first canonical choice, other than the fallback,
\* contained in the text
BySubjectChoice(choiceIn) ==
    IF choiceIn # {} THEN SUBJECT_CHOICES[FirstOf(choiceIn)] ELSE Unclassified

\* the fourth test, with the text itself kept when no alias is contained
ByAliasContainedElseText(s, aliasIn) ==
    IF aliasIn # {} THEN _SUBJECT_ALIASES[FirstOf(aliasIn)][2] ELSE s

\* the fourth test: the first alias contained in the text
ByAliasContained(s, aliasIn) ==
    IF aliasIn # {} THEN _SUBJECT_ALIASES[FirstOf(aliasIn)][2]
    ELSE BySubjectChoice({i \in 1..Len(SUBJECT_CHOICES) :
                             /\ SUBJECT_CHOICES[i] # Unclassified
                             /\ Contains(s, SUBJECT_CHOICES[i])})

\* the third test: the first English hint contained in the lowered text
ByEnglishHint(s, hint) ==
    IF hint # {} THEN EnglishHints[FirstOf(hint)][2]
    ELSE ByAliasContained(s, {i \in 1..Len(_SUBJECT_ALIASES) :
                                 Contains(s, _SUBJECT_ALIASES[i][1])})

\* the second test without the English hints after it
ByAliasThenContained(s, alias) ==
    IF alias # {} THEN _SUBJECT_ALIASES[FirstOf(alias)][2]
    ELSE ByAliasContained(s, {i \in 1..Len(_SUBJECT_ALIASES) :
                                 Contains(s, _SUBJECT_ALIASES[i][1])})

\* the second test: the text is an alias
ByAlias(s, alias) ==
    IF alias # {} THEN _SUBJECT_ALIASES[FirstOf(alias)][2]
    ELSE ByEnglishHint(s, {i \in 1..Len(EnglishHints) :
                              Contains(Lower(s), EnglishHints[i][1])})

\* the tests made on the text once its prefix is removed, the first being
\* that the text is a canonical choice
CanonicalSubject(s) ==
    IF \E i \in 1..Len(SUBJECT_CHOICES) : SUBJECT_CHOICES[i] = s THEN s
    ELSE ByAlias(s, {i \in 1..Len(_SUBJECT_ALIASES) : _SUBJECT_ALIASES[i][1] = s})

\* the removal of the first matching prefix; pre is the set of the
\* positions of the prefixes the text starts with
WithoutPrefix(s0, pre) ==
    IF pre = {} THEN s0
    ELSE Strip(SubSeq(s0, Len(SubjectPrefixes[FirstOf(pre)]) + 1, Len(s0)))

StrippedSubject(s0) ==
    IF s0 = <<>> THEN Unclassified
    ELSE CanonicalSubject(
             WithoutPrefix(s0, {i \in 1..Len(SubjectPrefixes) :
                                   StartsWith(s0, SubjectPrefixes[i])}))

normalize_subject(subject) ==
    IF subject = NoneValue THEN Unclassified ELSE StrippedSubject(Strip(subject))

(***************************************************************************)
(* Concept normalizer.                                                     *)
(***************************************************************************)

\* the truncation length of _normalize_concept_name
NameLimit == 24

_normalize_concept_name(value) ==
    LET s0 == IF value = NoneValue THEN <<>> ELSE Strip(value)
        s1 == CollapseWhitespace(s0)
        s2 == StripChars(s1, TailPunctuation)
    IN  IF s0 = <<>> THEN <<>>
        ELSE IF Len(s2) > NameLimit THEN SubSeq(s2, 1, NameLimit) ELSE s2

(***************************************************************************)
(* Knowledge node store.  A database value is [nodes, now]: the rows of    *)
(* knowledge_nodes (row i has id i) and the clock.  Every call of          *)
(* get_or_create_knowledge_node reads datetime.utcnow() once, later than   *)
(* any earlier reading.                                                    *)
(***************************************************************************)

KINDS == {"chapter", "concept", "method", "mistake"}

\* a lookup that finds no row
FindNodeMisses(db, owner, subject, name) == 0

\* KnowledgeNode.query.filter_by(user_id, subject, name).first(): 0 is None
FindNode(db, owner, subject, name) ==
    LET hit == {i \in 1..Len(db.nodes) :
                   /\ db.nodes[i].user_id = owner
                   /\ db.nodes[i].subject = subject
                   /\ db.nodes[i].name = name}
    IN  IF hit = {} THEN 0 ELSE FirstOf(hit)

\* the insert of a new row whether or not a row was found
InsertNode(db, owner_user_id, subject_norm, name_norm, kind, found, t) ==
    [db |-> [nodes |-> Append(db.nodes,
                 [user_id |-> owner_user_id,
                  subject |-> subject_norm,
                  name |-> name_norm,
                  kind |-> IF kind # "" THEN kind ELSE "concept",
                  created_at |-> t,
                  last_seen_at |-> t]),
             now |-> t],
     id |-> Len(db.nodes) + 1]

\* the row found takes the requested kind whatever its kind was
OverwriteKind(db, owner_user_id, subject_norm, name_norm, kind, found, t) ==
    IF found # 0
    THEN [db |-> [nodes |-> [db.nodes EXCEPT
                      ![found].last_seen_at = t,
                      ![found].kind = IF kind # "" THEN kind ELSE @],
                  now |-> t],
          id |-> found]
    ELSE InsertNode(db, owner_user_id, subject_norm, name_norm, kind, found, t)

\* the update of the row found, or the insert of a new row, at time t;
\* the result is [db, id]
StoreNode(db, owner_user_id, subject_norm, name_norm, kind, found, t) ==
    IF found # 0
    THEN [db |-> [nodes |-> [db.nodes EXCEPT
                      ![found].last_seen_at = t,
                      ![found].kind =
                          IF kind # "" /\ @ = "concept" /\ kind # "concept"
                          THEN kind ELSE @],
                  now |-> t],
          id |-> found]
    ELSE [db |-> [nodes |-> Append(db.nodes,
                      [user_id |-> owner_user_id,
                       subject |-> subject_norm,
                       name |-> name_norm,
                       kind |-> IF kind # "" THEN kind ELSE "concept",
                       created_at |-> t,
                       last_seen_at |-> t]),
                  now |-> t],
          id |-> Len(db.nodes) + 1]

\* a table without the constraint: no insert is refused
NeverRefused(db, owner_user_id, subject_norm, name_norm) == FALSE

\* uq_knowledge_node_user_subject_name: the commit of a new row is refused
\* when a row of the table has its user_id, subject and name
UniqueRefuses(db, owner_user_id, subject_norm, name_norm) ==
    FindNode(db, owner_user_id, subject_norm, name_norm) # 0

\* the body of get_or_create_knowledge_node after the two normalizations;
\* id = 0 is the None result
LookupNode(db, owner_user_id, subject_norm, name_norm, kind) ==
    IF name_norm = <<>> THEN [db |-> db, id |-> 0]
    ELSE StoreNode(db, owner_user_id, subject_norm, name_norm, kind,
                   FindNode(db, owner_user_id, subject_norm, name_norm), db.now + 1)

\* the result is [db, id]
get_or_create_knowledge_node(db, owner_user_id, subject, name, kind) ==
    LookupNode(db, owner_user_id, normalize_subject(subject),
               _normalize_concept_name(name), kind)

(***************************************************************************)
(* Texts of the examples.                                                  *)
(***************************************************************************)

X == <<"x">>
Y == <<"y">>
Z == <<"z">>
T == <<"t">>
Dash == <<"u002D">>
PaddedX == <<"u0020", "x", "u003A">>
Maths == <<"u6570", "u5B66">>
MathsEnglish == <<"M", "a", "t", "h">>

Digits == <<"0", "1", "2", "3", "4", "5", "6", "7", "8", "9">>

\* a name of its own for each number below 100
Numbered(i) == <<"n", Digits[(i \div 10) + 1], Digits[(i % 10) + 1]>>

\* n names, all different
ManyTerms(n) == [i \in 1..n |-> Numbered(i)]

(***************************************************************************)
(* JSON objects in the text of a model reply.                              *)
(***************************************************************************)

Backtick == "u0060"
Newline == "u000A"
OpenBrace == "u007B"
CloseBrace == "u007D"
Quote == "u0022"
Backslash == "u005C"
Comma == "u002C"
Colon == "u003A"
Fence == <<Backtick, Backtick, Backtick>>

\* s.endswith(p)
EndsWith(s, p) == Len(p) <= Len(s) /\ SubSeq(s, Len(s) - Len(p) + 1, Len(s)) = p

\* sep.join(parts)
RECURSIVE Join(_, _)
Join(parts, sep) ==
    IF parts = <<>> THEN <<>>
    ELSE IF Len(parts) = 1 THEN parts[1]
    ELSE parts[1] \o sep \o Join(Tail(parts), sep)

\* s.splitlines(), for the line ending "\n"
RECURSIVE SplitLines(_)
SplitLines(s) ==
    IF s = <<>> THEN <<>>
    ELSE IF FindChar(s, Newline) = 0 THEN <<s>>
    ELSE <<SubSeq(s, 1, FindChar(s, Newline) - 1)>>
         \o SplitLines(SubSeq(s, FindChar(s, Newline) + 1, Len(s)))

\* the fenced branch of _strip_code_fence: lines[1:-1] joined and stripped
StripFenceLines(trimmed, lines) ==
    IF Len(lines) >= 2
    THEN Strip(Join(SubSeq(lines, 2, Len(lines) - 1), <<Newline>>))
    ELSE trimmed

StripFence(trimmed) ==
    IF StartsWith(trimmed, Fence) /\ EndsWith(trimmed, Fence)
    THEN StripFenceLines(trimmed, SplitLines(trimmed))
    ELSE trimmed

_strip_code_fence(text) == StripFence(Strip(text))

\* the characters that the loop of _extract_first_json_object tests for
ScanCharacters == {Quote, Backslash, OpenBrace, CloseBrace}

\* the first position from i on that holds one of them, Len(s) + 1 when
\* there is none: the characters before it leave depth and in_string as
\* they are
NextTested(s, i) ==
    IF \E k \in i..Len(s) : s[k] \in ScanCharacters
    THEN CHOOSE k \in i..Len(s) :
             s[k] \in ScanCharacters /\ \A m \in i..(k - 1) : s[m] \notin ScanCharacters
    ELSE Len(s) + 1

\* the loop of _extract_first_json_object from position i on: the position
\* of the brace that closes the object, 0 when the text ends before it
RECURSIVE ScanObject(_, _, _, _, _)
ScanObject(s, i, depth, in_string, escape) ==
    IF i > Len(s) THEN 0
    ELSE IF in_string
         THEN IF escape THEN ScanObject(s, NextTested(s, i + 1), depth, TRUE, FALSE)
              ELSE IF s[i] = Backslash THEN ScanObject(s, i + 1, depth, TRUE, TRUE)
              ELSE IF s[i] = Quote
                   THEN ScanObject(s, NextTested(s, i + 1), depth, FALSE, FALSE)
              ELSE ScanObject(s, NextTested(s, i + 1), depth, TRUE, FALSE)
    ELSE IF s[i] = Quote THEN ScanObject(s, NextTested(s, i + 1), depth, TRUE, escape)
    ELSE IF s[i] = OpenBrace
         THEN ScanObject(s, NextTested(s, i + 1), depth + 1, FALSE, escape)
    ELSE IF s[i] = CloseBrace
         THEN IF depth - 1 = 0 THEN i
              ELSE ScanObject(s, NextTested(s, i + 1), depth - 1, FALSE, escape)
    ELSE ScanObject(s, NextTested(s, i + 1), depth, FALSE, escape)

\* s[start : end + 1].strip(), None when there is no closing brace
ObjectBetween(s, start, end) ==
    IF end = 0 THEN NoneValue ELSE Strip(SubSeq(s, start, end))

\* the object that starts at the first opening brace of s, None without one
FirstObject(s, start) ==
    IF start = 0 THEN NoneValue
    ELSE ObjectBetween(s, start, ScanObject(s, start, 0, FALSE, FALSE))

_extract_first_json_object(text) ==
    FirstObject(_strip_code_fence(text), FindChar(_strip_code_fence(text), OpenBrace))

\* An analysis object is [mistakes, key_points]: mistakes lists the 'concept'
\* of each item of its mistakes list (every item is an object), key_points
\* lists its key points; a value is a text or null (None).

\* the JSON text of a value; no text of the examples has a quote or a
\* backslash in it
JsonValue(v) ==
    IF v = NoneValue THEN <<"n", "u", "l", "l">> ELSE <<Quote>> \o v \o <<Quote>>

JsonKey(name) == <<Quote>> \o name \o <<Quote, Colon>>

JsonList(items) == <<"u005B">> \o Join(items, <<Comma>>) \o <<"u005D">>

JsonMistake(concept) ==
    <<OpenBrace>> \o JsonKey(<<"c", "o", "n", "c", "e", "p", "t">>)
    \o JsonValue(concept) \o <<CloseBrace>>

\* the JSON text of an analysis object
JsonText(obj) ==
    <<OpenBrace>>
    \o JsonKey(<<"m", "i", "s", "t", "a", "k", "e", "s">>)
    \o JsonList([i \in DOMAIN obj.mistakes |-> JsonMistake(obj.mistakes[i])])
    \o <<Comma>>
    \o JsonKey(<<"k", "e", "y", "u005F", "p", "o", "i", "n", "t", "s">>)
    \o JsonList([i \in DOMAIN obj.key_points |-> JsonValue(obj.key_points[i])])
    \o <<CloseBrace>>

MaxItems == 17     \* items of the longest key_points list

Analysis(mistakes, key_points) == [mistakes |-> mistakes, key_points |-> key_points]

\* the analysis objects of the examples
AnalysisObjects ==
    { Analysis(<<X, NoneValue>>, <<Z, PaddedX>>),
      Analysis(<< <<"u5206", "u5F0F", "u65B9", "u7A0B">> >>, << <<"u53BB", "u5206", "u6BCD">> >>),
      Analysis(<< <<"x", CloseBrace>>, X >>, << X, Y, <<OpenBrace, "y">> >>),
      Analysis(<<>>, <<>>),
      Analysis(<<Numbered(2), Numbered(MaxItems)>>, ManyTerms(MaxItems)) }

NotADict == [is_dict |-> FALSE, mistakes |-> <<>>, key_points |-> <<>>]

\* json.loads, then the isinstance test: the analysis object whose JSON text
\* is s; the text of no example is a Python literal that is not JSON, so the
\* ast.literal_eval fallback fails whenever json.loads does
LoadsObject(s) ==
    IF \E obj \in AnalysisObjects : JsonText(obj) = s
    THEN [is_dict |-> TRUE] @@ (CHOOSE obj \in AnalysisObjects : JsonText(obj) = s)
    ELSE NotADict

_loads_lenient_object(text) ==
    IF text = NoneValue \/ Strip(text) = <<>> THEN NotADict ELSE LoadsObject(Strip(text))

(***************************************************************************)
(* Source records and concept extractors.                                  *)
(*                                                                         *)
(* A note entry is [id, user_id, subject, title, has_summary, key_terms,   *)
(* summary_points]: has_summary says that summary_json parses to an        *)
(* object, key_terms and summary_points are the lists found in it.  An     *)
(* error entry is [id, user_id, subject, title, ai_analysis]: ai_analysis   *)
(* is the text of the analysis.                                            *)
(***************************************************************************)

\* the cap on the concept list of one record
ConceptCap == 16

\* the length of a summary point's heading when it has no full-width colon
HeadingLen == 12

FullWidthColon == "uFF1A"

\* head of one summary point: text before the first full-width colon, else
\* the first 12 characters
SummaryPointHead(p) ==
    LET s == Strip(p)
        at == FindChar(s, FullWidthColon)
    IN  IF at # 0 THEN Strip(SubSeq(s, 1, at - 1)) ELSE Prefix(s, HeadingLen)

\* normalizes every item and drops the empty results
RECURSIVE NormalizeAll(_)
NormalizeAll(xs) ==
    IF xs = <<>> THEN <<>>
    ELSE LET n == _normalize_concept_name(Head(xs))
         IN  (IF n = <<>> THEN <<>> ELSE <<n>>) \o NormalizeAll(Tail(xs))

\* the non-blank summary points, each reduced to its head
RECURSIVE PointHeads(_)
PointHeads(ps) ==
    IF ps = <<>> THEN <<>>
    ELSE (IF Strip(Head(ps)) = <<>> THEN <<>> ELSE <<SummaryPointHead(Head(ps))>>)
         \o PointHeads(Tail(ps))

\* the result is [subject, concepts]
_extract_note_concepts(entry) ==
    LET fromTerms == IF entry.has_summary THEN NormalizeAll(entry.key_terms) ELSE <<>>
        concepts == IF entry.has_summary /\ fromTerms = <<>>
                    THEN NormalizeAll(PointHeads(entry.summary_points))
                    ELSE fromTerms
    IN  [subject |-> normalize_subject(entry.subject),
         concepts |-> Prefix(Dedup(concepts), ConceptCap)]

\* the concepts of the parsed analysis, [] when it is not an object
ParsedConcepts(parsed) ==
    IF parsed.is_dict
    THEN NormalizeAll(parsed.mistakes) \o NormalizeAll(parsed.key_points)
    ELSE <<>>

_extract_error_concepts(entry) ==
    [subject |-> normalize_subject(entry.subject),
     concepts |-> Prefix(Dedup(ParsedConcepts(
                      _loads_lenient_object(_extract_first_json_object(entry.ai_analysis)))),
                  ConceptCap)]

(***************************************************************************)
(* The extractors on stored contents of every type.                        *)
(*                                                                         *)
(* A Python value is [type, text, items]: text is the text of a str, the   *)
(* digits of an int, the word of a bool and the key of a dict entry; items *)
(* lists the items of a list, the entries of a dict and the value of an    *)
(* entry.  The result of an operation that may raise is [raised, value].   *)
(***************************************************************************)

PyValue(type, text, items) == [type |-> type, text |-> text, items |-> items]
PyNone == PyValue("NoneType", <<>>, <<>>)
PyStr(t) == PyValue("str", t, <<>>)
PyInt(digits) == PyValue("int", digits, <<>>)
PyTrue == PyValue("bool", <<"T", "r", "u", "e">>, <<>>)
PyList(items) == PyValue("list", <<>>, items)
PyEntry(key, v) == PyValue("entry", key, <<v>>)
PyDict(entries) == PyValue("dict", <<>>, entries)

Raised == [raised |-> TRUE, value |-> PyNone]
Returned(v) == [raised |-> FALSE, value |-> v]

\* isinstance answering yes to every question
AnyInstance(v, type) == TRUE

\* isinstance(v, type)
IsInstance(v, type) == v.type = type

\* bool(v)
Truth(v) ==
    CASE v.type = "NoneType" -> FALSE
      [] v.type = "str" -> v.text # <<>>
      [] v.type = "int" -> v.text # <<"0">>
      [] v.type = "bool" -> v.text = PyTrue.text
      [] OTHER -> v.items # <<>>

Apostrophe == "u0027"
CommaSpace == <<Comma, "u0020">>

\* repr(v)
RECURSIVE PyRepr(_)
PyRepr(v) ==
    CASE v.type = "NoneType" -> <<"N", "o", "n", "e">>
      [] v.type = "str" -> <<Apostrophe>> \o v.text \o <<Apostrophe>>
      [] v.type = "list" ->
            <<"u005B">> \o Join([i \in DOMAIN v.items |-> PyRepr(v.items[i])], CommaSpace)
            \o <<"u005D">>
      [] v.type = "dict" ->
            <<OpenBrace>> \o Join([i \in DOMAIN v.items |-> PyRepr(v.items[i])], CommaSpace)
            \o <<CloseBrace>>
      [] v.type = "entry" ->
            <<Apostrophe>> \o v.text \o <<Apostrophe, Colon, "u0020">> \o PyRepr(v.items[1])
      [] OTHER -> v.text

\* str(v or '')
StrOrEmpty(v) ==
    IF ~Truth(v) THEN <<>> ELSE IF v.type = "str" THEN v.text ELSE PyRepr(v)

\* v.get(key): an AttributeError unless v is a dict
PyGet(v, key) ==
    IF v.type # "dict" THEN Raised
    ELSE IF \E i \in DOMAIN v.items : v.items[i].text = key
    THEN Returned(v.items[FirstOf({i \in DOMAIN v.items : v.items[i].text = key})].items[1])
    ELSE Returned(PyNone)

\* the items a for loop over v visits: a TypeError unless v is iterable
PyIter(v) ==
    CASE v.type = "list" -> Returned(v.items)
      [] v.type = "dict" -> Returned([i \in DOMAIN v.items |-> PyStr(v.items[i].text)])
      [] v.type = "str" -> Returned([i \in DOMAIN v.text |-> PyStr(<<v.text[i]>>)])
      [] OTHER -> Raised

KeyTermsKey == <<"k", "e", "y", "u005F", "t", "e", "r", "m", "s">>
SummaryPointsKey == <<"s", "u", "m", "m", "a", "r", "y", "u005F", "p", "o", "i", "n", "t", "s">>
MistakesKey == <<"m", "i", "s", "t", "a", "k", "e", "s">>
KeyPointsKey == <<"k", "e", "y", "u005F", "p", "o", "i", "n", "t", "s">>
ConceptKey == <<"c", "o", "n", "c", "e", "p", "t">>

\* the texts of the items, for NormalizeAll and PointHeads
TextsOf(items) == [i \in DOMAIN items |-> StrOrEmpty(items[i])]

\* _loads_lenient_object on a text for which json.loads and
\* ast.literal_eval have the outcomes json and literal; both are called
\* inside try blocks that catch every Exception
LoadsLenient(has_text, json, literal) ==
    IF ~has_text THEN PyNone
    ELSE IF ~json.raised
    THEN (IF IsInstance(json.value, "dict") THEN json.value ELSE PyNone)
    ELSE IF ~literal.raised /\ IsInstance(literal.value, "dict") THEN literal.value
    ELSE PyNone

\* the names of a loop over the value got under a key: none when the value
\* is not a list; g is the result of the get, heads says that the items are
\* summary points
NamesUnder(g, heads) ==
    IF g.raised THEN [raised |-> TRUE, names |-> <<>>]
    ELSE IF ~IsInstance(g.value, "list") THEN [raised |-> FALSE, names |-> <<>>]
    ELSE IF PyIter(g.value).raised THEN [raised |-> TRUE, names |-> <<>>]
    ELSE [raised |-> FALSE,
          names |-> IF heads THEN NormalizeAll(PointHeads(TextsOf(PyIter(g.value).value)))
                    ELSE NormalizeAll(TextsOf(PyIter(g.value).value))]

\* the summary points are read when the key terms gave no name
TermsElsePoints(terms, summary_obj) ==
    IF terms.raised \/ terms.names # <<>> THEN terms
    ELSE NamesUnder(PyGet(summary_obj, SummaryPointsKey), TRUE)

\* the concepts of _extract_note_concepts from the value parsed
NoteNames(summary_obj) ==
    IF ~IsInstance(summary_obj, "dict") THEN [raised |-> FALSE, names |-> <<>>]
    ELSE TermsElsePoints(NamesUnder(PyGet(summary_obj, KeyTermsKey), FALSE), summary_obj)

\* the concept of one item of mistakes, added before the names of the rest
WithConcept(g, rest) ==
    IF g.raised \/ rest.raised THEN [raised |-> TRUE, names |-> <<>>]
    ELSE [raised |-> FALSE, names |-> NormalizeAll(<<StrOrEmpty(g.value)>>) \o rest.names]

\* the loop over mistakes: an item that is not a dict is skipped
RECURSIVE MistakeNames(_)
MistakeNames(ms) ==
    IF ms = <<>> THEN [raised |-> FALSE, names |-> <<>>]
    ELSE IF ~IsInstance(Head(ms), "dict") THEN MistakeNames(Tail(ms))
    ELSE WithConcept(PyGet(Head(ms), ConceptKey), MistakeNames(Tail(ms)))

\* the mistakes under their key, [] when the value is not a list
MistakesUnder(g) ==
    IF g.raised THEN [raised |-> TRUE, names |-> <<>>]
    ELSE IF ~IsInstance(g.value, "list") THEN [raised |-> FALSE, names |-> <<>>]
    ELSE IF PyIter(g.value).raised THEN [raised |-> TRUE, names |-> <<>>]
    ELSE MistakeNames(PyIter(g.value).value)

BothNames(a, b) ==
    IF a.raised \/ b.raised THEN [raised |-> TRUE, names |-> <<>>]
    ELSE [raised |-> FALSE, names |-> a.names \o b.names]

\* the concepts of _extract_error_concepts from the value parsed
ErrorNames(parsed) ==
    IF ~IsInstance(parsed, "dict") THEN [raised |-> FALSE, names |-> <<>>]
    ELSE BothNames(MistakesUnder(PyGet(parsed, MistakesKey)),
                   NamesUnder(PyGet(parsed, KeyPointsKey), FALSE))

\* what the caller of an extractor gets: the exception, or the pair
ExtractorResult(subject, r) ==
    IF r.raised THEN [raised |-> TRUE, subject |-> NoneValue, concepts |-> <<>>]
    ELSE [raised |-> FALSE, subject |-> normalize_subject(subject),
          concepts |-> Prefix(Dedup(r.names), ConceptCap)]

\* _extract_note_concepts for an entry [subject, has_text, json, literal]:
\* has_text says that summary_json has a character that is not whitespace
NoteContentConcepts(entry) ==
    ExtractorResult(entry.subject,
                    NoteNames(LoadsLenient(entry.has_text, entry.json, entry.literal)))

\* _extract_error_concepts for an entry [subject, has_text, json, literal]:
\* has_text says that _extract_first_json_object finds a text in
\* ai_analysis, json and literal are the outcomes for that text
ErrorContentConcepts(entry) ==
    ExtractorResult(entry.subject,
                    ErrorNames(LoadsLenient(entry.has_text, entry.json, entry.literal)))

\* the node r obtained for one name, added to acc = [db, ids]
AddNode(acc, r) ==
    [db |-> r.db, ids |-> IF r.id = 0 THEN acc.ids ELSE Append(acc.ids, r.id)]

\* get_or_create_knowledge_node for each name in turn, kind 'concept'; the
\* result is [db, ids], ids listing the ids of the nodes obtained
RECURSIVE MaterializeConcepts(_, _, _, _)
MaterializeConcepts(acc, owner, subject, names) ==
    IF names = <<>> THEN acc
    ELSE MaterializeConcepts(
             AddNode(acc, get_or_create_knowledge_node(acc.db, owner, subject,
                                                       Head(names), "concept")),
             owner, subject, Tail(names))

\* the loop over the concepts x = [subject, concepts] of one record
MaterializeExtracted(db, owner, x) ==
    MaterializeConcepts([db |-> db, ids |-> <<>>], owner, x.subject, x.concepts)

upsert_knowledge_from_note(db, entry) ==
    MaterializeExtracted(db, entry.user_id, _extract_note_concepts(entry)).db

upsert_knowledge_from_error(db, entry) ==
    MaterializeExtracted(db, entry.user_id, _extract_error_concepts(entry)).db

(***************************************************************************)
(* Co-occurrence graph builder.  The adjacency map related is modelled as  *)
(* a function on the pairs <<a, b>> for which b is a key of related[a].    *)
(***************************************************************************)

\* the number of most recent records of each kind the builder reads
RecentWindow == 120

\* query.filter_by(user_id).order_by(created_at.desc()).limit(n).all();
\* records are kept in creation order
RECURSIVE Reverse(_)
Reverse(s) == IF s = <<>> THEN <<>> ELSE Append(Reverse(Tail(s)), Head(s))

RECURSIVE OwnedBy(_, _)
OwnedBy(records, owner) ==
    IF records = <<>> THEN <<>>
    ELSE (IF Head(records).user_id = owner THEN <<Head(records)>> ELSE <<>>)
         \o OwnedBy(Tail(records), owner)

Recent(records, owner, n) == Prefix(Reverse(OwnedBy(records, owner)), n)

\* the write of weight 1 whatever the weight was
BumpOnce(related, a, b) ==
    [p \in (DOMAIN related) \union {<<a, b>>} |->
        IF p = <<a, b>> THEN 1 ELSE related[p]]

\* related.setdefault(a, {})[b] = related.setdefault(a, {}).get(b, 0) + 1
Bump(related, a, b) ==
    [p \in (DOMAIN related) \union {<<a, b>>} |->
        IF p = <<a, b>>
        THEN (IF p \in DOMAIN related THEN related[p] ELSE 0) + 1
        ELSE related[p]]

\* the pairs <<i, j>>, i < j, of positions of a list of n items, in the
\* order of the two nested loops of add_pairs
RECURSIVE PairsFrom(_, _, _)
PairsFrom(i, j, n) ==
    IF i >= n THEN <<>>
    ELSE IF j > n THEN PairsFrom(i + 1, i + 2, n)
    ELSE <<(<<i, j>>)>> \o PairsFrom(i, j + 1, n)

RECURSIVE BumpOneWay(_, _, _)
BumpOneWay(related, uniq, ps) ==
    IF ps = <<>> THEN related
    ELSE BumpOneWay(Bump(related, uniq[Head(ps)[1]], uniq[Head(ps)[2]]), uniq, Tail(ps))

RECURSIVE BumpBothWays(_, _, _)
BumpBothWays(related, uniq, ps) ==
    IF ps = <<>> THEN related
    ELSE LET a == uniq[Head(ps)[1]]
             b == uniq[Head(ps)[2]]
         IN  BumpBothWays(Bump(Bump(related, a, b), b, a), uniq, Tail(ps))

\* add_pairs with the second write (b -> a) left out
add_pairs_one_way(related, node_ids) ==
    LET uniq == Dedup(SelectSeq(node_ids, LAMBDA x : x # 0))
    IN  IF Len(uniq) < 2 THEN related
        ELSE BumpOneWay(related, uniq, PairsFrom(1, 2, Len(uniq)))

add_pairs(related, node_ids) ==
    LET uniq == Dedup(SelectSeq(node_ids, LAMBDA x : x # 0))
    IN  IF Len(uniq) < 2 THEN related
        ELSE BumpBothWays(related, uniq, PairsFrom(1, 2, Len(uniq)))

\* the nodes m = [db, ids] of one record, entered into related
AddCooccurrence(related, m) == [db |-> m.db, related |-> add_pairs(related, m.ids)]

\* one loop of _build_cooccurrence_related over the records of one kind;
\* st is [db, related]
RECURSIVE CooccurNotes(_, _, _)
CooccurNotes(st, owner, records) ==
    IF records = <<>> THEN st
    ELSE CooccurNotes(
             AddCooccurrence(st.related,
                 MaterializeExtracted(st.db, owner, _extract_note_concepts(Head(records)))),
             owner, Tail(records))

RECURSIVE CooccurErrors(_, _, _)
CooccurErrors(st, owner, records) ==
    IF records = <<>> THEN st
    ELSE CooccurErrors(
             AddCooccurrence(st.related,
                 MaterializeExtracted(st.db, owner, _extract_error_concepts(Head(records)))),
             owner, Tail(records))

\* the result is [db, related]
_build_cooccurrence_related(db, owner_user_id, note_rows, error_rows) ==
    CooccurErrors(CooccurNotes([db |-> db, related |-> <<>>], owner_user_id,
                               Recent(note_rows, owner_user_id, RecentWindow)),
                  owner_user_id, Recent(error_rows, owner_user_id, RecentWindow))

(***************************************************************************)
(* AI tree generation.  The environment's part of one call of              *)
(* run_gemini_mindmap_tree is ai = [configured, attempts, payload]:        *)
(* configured says that the API key and the client library are present,    *)
(* attempts[k] is what the k-th generate_content call does ("text": it     *)
(* returns non-empty text, "empty": it returns no text, any other value:   *)
(* it raises the error whose message is ExceptionMessage of that value),   *)
(* payload is what the returned text parses to.                            *)
(* A JSON object is a record with type = "dict"; any other JSON value or   *)
(* unparsable text has another type.  A tree node is                       *)
(* [type, name, kind, children]; a node without a children list has        *)
(* children = <<>>.                                                        *)
(***************************************************************************)

\* the number of generation attempts of one call
MaxAttempts == 3

\* the messages that make a failure transient
TransientVocabulary ==
    { <<"s", "e", "r", "v", "e", "r", "u0020", "d", "i", "s", "c", "o", "n", "n", "e", "c", "t", "e", "d">>,
      <<"t", "i", "m", "e", "d", "u0020", "o", "u", "t">>,
      <<"t", "i", "m", "e", "o", "u", "t">>,
      <<"c", "o", "n", "n", "e", "c", "t", "i", "o", "n", "u0020", "r", "e", "s", "e", "t">>,
      <<"t", "e", "m", "p", "o", "r", "a", "r", "i", "l", "y", "u0020", "u", "n", "a", "v", "a", "i", "l", "a", "b", "l", "e">>,
      <<"s", "s", "l">>,
      <<"t", "l", "s">> }

\* str(exc) of the failure an attempt of that outcome raises
ExceptionMessage(outcome) ==
    CASE outcome = "transient" -> <<"S", "e", "r", "v", "e", "r", "u0020", "d", "i", "s", "c", "o", "n", "n", "e", "c", "t", "e", "d">>
      [] outcome = "timeout" -> <<"R", "e", "a", "d", "u0020", "t", "i", "m", "e", "d", "u0020", "o", "u", "t">>
      [] outcome = "tls" -> <<"T", "L", "S", "V", "1", "u0020", "a", "l", "e", "r", "t">>
      [] OTHER -> <<"A", "P", "I", "u0020", "k", "e", "y", "u0020", "n", "o", "t", "u0020", "v", "a", "l", "i", "d">>

\* a failure that is always taken for transient
AlwaysTransient(outcome) == TRUE

\* any(s in msg for s in (...)) for msg = str(exc).lower()
IsTransient(outcome) ==
    \E s \in TransientVocabulary : Contains(Lower(ExceptionMessage(outcome)), s)

\* the attempt loop: the result is [raw, raised, calls]
RECURSIVE GenerateLoop(_, _, _)
GenerateLoop(attempts, attempt, last_exc) ==
    IF attempt >= MaxAttempts
    THEN [raw |-> FALSE, raised |-> last_exc, calls |-> attempt]
    ELSE LET outcome == attempts[attempt + 1]
         IN  CASE outcome = "text" ->
                    [raw |-> TRUE, raised |-> FALSE, calls |-> attempt + 1]
               [] outcome = "empty" ->
                    GenerateLoop(attempts, attempt + 1, last_exc)
               [] OTHER ->
                    IF attempt < MaxAttempts - 1 /\ IsTransient(outcome)
                    THEN GenerateLoop(attempts, attempt + 1, TRUE)
                    ELSE [raw |-> FALSE, raised |-> TRUE, calls |-> attempt + 1]

\* a validation that lets everything pass
ValidatesNothing(obj) == [ok |-> TRUE, value |-> obj]

\* the result is [ok, value]: ok = FALSE stands for the error result
_validate_mind_tree_dict(obj) ==
    IF obj.type # "dict" THEN [ok |-> FALSE, value |-> obj]
    ELSE IF obj.tree.type # "dict" THEN [ok |-> FALSE, value |-> obj]
    ELSE IF Strip(obj.tree.name) = <<>> THEN [ok |-> FALSE, value |-> obj]
    ELSE [ok |-> TRUE, value |-> obj]

\* the result is [ok, value, calls]: ok = FALSE stands for a raised exception,
\* calls counts the generate_content calls made
run_gemini_mindmap_tree(ai) ==
    IF ~ai.configured THEN [ok |-> FALSE, value |-> ai.payload, calls |-> 0]
    ELSE LET g == GenerateLoop(ai.attempts, 0, FALSE)
             v == _validate_mind_tree_dict(ai.payload)
         IN  IF ~g.raw
             THEN [ok |-> FALSE, value |-> ai.payload, calls |-> g.calls]
             ELSE [ok |-> v.ok, value |-> ai.payload, calls |-> g.calls]

\* the test of run_gemini_mindmap_compare on the parsed text: an object
\* with a list under 'comparisons'
ValidComparison(obj) ==
    IF obj.type # "dict" THEN FALSE ELSE obj.comparisons.type = "list"

\* the result is [ok, value, calls], as for run_gemini_mindmap_tree
run_gemini_mindmap_compare(ai) ==
    IF ~ai.configured THEN [ok |-> FALSE, value |-> ai.payload, calls |-> 0]
    ELSE LET g == GenerateLoop(ai.attempts, 0, FALSE)
         IN  IF ~g.raw
             THEN [ok |-> FALSE, value |-> ai.payload, calls |-> g.calls]
             ELSE [ok |-> ValidComparison(ai.payload), value |-> ai.payload,
                   calls |-> g.calls]

\* str(child.get('kind') or 'concept').strip() or 'concept'
ChildKind(kind) ==
    LET k == IF kind = "" THEN "concept" ELSE kind
        stripped == CASE k = " method " -> "method"
                      [] k = " " -> ""
                      [] OTHER -> k
    IN  IF stripped = "" THEN "concept" ELSE stripped

\* the walk of _flatten_mind_tree: the edges <<parent_name, child_name,
\* child_kind>> of a node, depth first
RECURSIVE walk(_)
RECURSIVE WalkChildren(_, _)
WalkChildren(parent_name, children) ==
    IF children = <<>> THEN <<>>
    ELSE LET child == Head(children)
             child_name == _normalize_concept_name(child.name)
         IN  IF child.type # "dict" THEN WalkChildren(parent_name, Tail(children))
             ELSE (IF child_name # <<>> /\ parent_name # <<>> /\ child_name # parent_name
                   THEN <<(<<parent_name, child_name, ChildKind(child.kind)>>)>>
                   ELSE <<>>)
                  \o walk(child)
                  \o WalkChildren(parent_name, Tail(children))

walk(node) ==
    WalkChildren(IF node.name = NoneValue THEN <<>> ELSE Strip(node.name), node.children)

_flatten_mind_tree(tree) == walk(tree)

(***************************************************************************)
(* Tree merge: mind_map_generate.  The merge state st is                   *)
(* [db, nodes, name_to_id, edges]: nodes is the set of keys of the nodes   *)
(* dict, name_to_id the set of its [key, id] items, edges the edge list.   *)
(***************************************************************************)

\* the node cap tested by the merge loops
NodeCap == 34

\* the number of flattened edges the merge reads
PairLimit == 80

\* the default titles: '课堂笔记' and '错题知识树'
DefaultNoteTitle == <<"u8BFE", "u5802", "u7B14", "u8BB0">>
DefaultErrorTitle == <<"u9519", "u9898", "u77E5", "u8BC6", "u6811">>

\* get_error_book_access_user_ids: user 2 is a parent whose linked child is
\* user 1; every other user sees only their own records
AccessUserIds(user) == IF user = 2 THEN {1, 2} ELSE {user}

\* query.filter(id == source_id).filter(user_id.in_(access)).first(); the
\* result is the position of the record, 0 for None
FindEntry(records, source_id, access) ==
    LET hit == {i \in 1..Len(records) :
                   records[i].id = source_id /\ records[i].user_id \in access}
    IN  IF hit = {} THEN 0 ELSE FirstOf(hit)

\* the node r obtained for a new key, entered into name_to_id only
RememberNameOnly(st, key, r) ==
    IF r.id = 0 THEN [st |-> st, id |-> 0]
    ELSE [st |-> [st EXCEPT !.db = r.db,
                            !.name_to_id = @ \union {[key |-> key, id |-> r.id]}],
          id |-> r.id]

\* the node r obtained for a new key, entered into nodes and name_to_id
RememberNode(st, key, r) ==
    IF r.id = 0 THEN [st |-> st, id |-> 0]
    ELSE [st |-> [st EXCEPT !.db = r.db,
                            !.nodes = @ \union {r.id},
                            !.name_to_id = @ \union {[key |-> key, id |-> r.id]}],
          id |-> r.id]

\* get_id_for_name passing on the kind it is given
LookupKeyAnyKind(st, owner, subject, key, kind) ==
    IF key = <<>> THEN [st |-> st, id |-> 0]
    ELSE IF \E e \in st.name_to_id : e.key = key
    THEN [st |-> st, id |-> (CHOOSE e \in st.name_to_id : e.key = key).id]
    ELSE RememberNode(st, key,
             get_or_create_knowledge_node(st.db, owner, subject, key, kind))

\* get_id_for_name after the normalization of the name
LookupKey(st, owner, subject, key, kind) ==
    IF key = <<>> THEN [st |-> st, id |-> 0]
    ELSE IF \E e \in st.name_to_id : e.key = key
    THEN [st |-> st, id |-> (CHOOSE e \in st.name_to_id : e.key = key).id]
    ELSE RememberNode(st, key,
             get_or_create_knowledge_node(st.db, owner, subject, key,
                                          IF kind \in KINDS THEN kind ELSE "concept"))

\* the result is [st, id]; id = 0 is None
get_id_for_name(st, owner, subject, nm, kind) ==
    LookupKey(st, owner, subject, _normalize_concept_name(nm), kind)

\* the edge of one pair, appended unless an end is missing or both ends are
\* one node; c is the result of get_id_for_name for the child
AddEdge(p_id, c) ==
    IF p_id = 0 \/ c.id = 0 \/ p_id = c.id THEN c.st
    ELSE [c.st EXCEPT !.edges = Append(@, [from |-> p_id, to |-> c.id])]

\* the child of one pair, resolved after its parent p
MergeChild(p, owner, subject, pair) ==
    AddEdge(p.id, get_id_for_name(p.st, owner, subject, pair[2], pair[3]))

\* the loop over pairs[:80]
RECURSIVE MergePairs(_, _, _, _)
MergePairs(st, owner, subject, pairs) ==
    IF pairs = <<>> \/ Cardinality(st.nodes) >= NodeCap THEN st
    ELSE MergePairs(
             MergeChild(get_id_for_name(st, owner, subject, Head(pairs)[1], "chapter"),
                        owner, subject, Head(pairs)),
             owner, subject, Tail(pairs))

\* the node r of one seed, put under the root unless an edge leads to it
AddSeed(st, root_id, r) ==
    IF r.id = 0 THEN st
    ELSE [st EXCEPT
            !.db = r.db,
            !.nodes = @ \union {r.id},
            !.edges = IF \E i \in 1..Len(@) : @[i].to = r.id THEN @
                      ELSE Append(@, [from |-> root_id, to |-> r.id])]

\* the loop 'ensure seeds appear under root if missing'
RECURSIVE MergeSeeds(_, _, _, _, _)
MergeSeeds(st, owner, subject, root_id, names) ==
    IF names = <<>> \/ Cardinality(st.nodes) >= NodeCap THEN st
    ELSE MergeSeeds(
             AddSeed(st, root_id,
                     get_or_create_knowledge_node(st.db, owner, subject,
                                                  Head(names), "concept")),
             owner, subject, root_id, Tail(names))

\* the node r of one seed, put under the root
AddFlat(st, root_id, r) ==
    IF r.id = 0 THEN st
    ELSE [st EXCEPT
            !.db = r.db,
            !.nodes = @ \union {r.id},
            !.edges = Append(@, [from |-> root_id, to |-> r.id])]

\* the flat tree: root -> each seed concept
RECURSIVE FlatSeeds(_, _, _, _, _)
FlatSeeds(st, owner, subject, root_id, names) ==
    IF names = <<>> THEN st
    ELSE FlatSeeds(
             AddFlat(st, root_id,
                     get_or_create_knowledge_node(st.db, owner, subject,
                                                  Head(names), "concept")),
             owner, subject, root_id, Tail(names))

\* RenameRoot on a table without the unique constraint
RenameRootUnconstrained(db, root_id, tree, title) ==
    LET n == _normalize_concept_name(tree.name)
        root_name == IF n # <<>> THEN n ELSE title
        old == db.nodes[root_id].name
        nn == _normalize_concept_name(root_name)
        new_name == IF nn # <<>> THEN nn ELSE old
    IN  IF root_name = <<>> \/ root_name = old \/ new_name = old
        THEN [db |-> db, failed |-> FALSE]
        ELSE [db |-> [db EXCEPT !.nodes[root_id].name = new_name], failed |-> FALSE]

\* the rename of the root to the name of the AI tree's root.  The table has
\* UniqueConstraint(user_id, subject, name): a rename to the key of another
\* row makes the commit raise, and the handler swallows the exception.  The
\* result is [db, failed].
RenameRoot(db, root_id, tree, title) ==
    LET n == _normalize_concept_name(tree.name)
        root_name == IF n # <<>> THEN n ELSE title
        old == db.nodes[root_id].name
        nn == _normalize_concept_name(root_name)
        new_name == IF nn # <<>> THEN nn ELSE old
        taken == \E i \in 1..Len(db.nodes) :
                    /\ i # root_id
                    /\ db.nodes[i].user_id = db.nodes[root_id].user_id
                    /\ db.nodes[i].subject = db.nodes[root_id].subject
                    /\ db.nodes[i].name = new_name
    IN  IF root_name = <<>> \/ root_name = old \/ new_name = old
        THEN [db |-> db, failed |-> FALSE]
        ELSE IF taken THEN [db |-> db, failed |-> TRUE]
        ELSE [db |-> [db EXCEPT !.nodes[root_id].name = new_name], failed |-> FALSE]

\* the response: the status code and, of the payload, source.title, root_id,
\* the ids of nodes, edges and the co-occurrence map behind 'related';
\* ai_calls counts the tree generation attempts the request made
Response(status, title, root_id, nodes, edges, related, calls) ==
    [status |-> status, title |-> title, root_id |-> root_id, nodes |-> nodes,
     edges |-> edges, related |-> related, ai_calls |-> calls]

ErrorResponse(status) == Response(status, <<>>, 0, {}, <<>>, <<>>, 0)

\* a response without a payload after a snapshot was written
RejectedAfterSnapshot(db, status) ==
    [db |-> db, snapshots |-> 1, response |-> ErrorResponse(status)]

\* a response without a payload: the database is left as db
Rejected(db, status) == [db |-> db, snapshots |-> 0, response |-> ErrorResponse(status)]

\* the merge state at the start of the loops
MergeState(db, root_id, name_to_id) ==
    [db |-> db, nodes |-> {root_id}, name_to_id |-> name_to_id, edges |-> <<>>]

\* the snapshot and the success payload; co is the co-occurrence result
Respond(c, root, st, calls, co) ==
    [db |-> co.db, snapshots |-> 1,
     response |-> Response(200, c.title, root.id, st.nodes, st.edges, co.related, calls)]

\* the end of the request; m = [failed, st]: failed says that a query made
\* after the swallowed commit error raised
Conclude(c, root, calls, m) ==
    IF m.failed
    THEN [db |-> root.db, snapshots |-> 0,
          response |-> [ErrorResponse(500) EXCEPT !.ai_calls = calls]]
    ELSE Respond(c, root, m.st, calls,
                 _build_cooccurrence_related(m.st.db, c.owner, c.note_rows, c.error_rows))

\* the branch taken with an AI tree, after the rename of the root
MergeTree(c, root, tree, renamed) ==
    IF renamed.failed /\ ~c.session_recovers
    THEN [failed |-> TRUE, st |-> MergeState(root.db, root.id, {})]
    ELSE [failed |-> FALSE,
          st |-> MergeSeeds(
                     MergePairs(
                         MergeState(renamed.db, root.id,
                                    {[key |-> _normalize_concept_name(
                                                  renamed.db.nodes[root.id].name),
                                      id |-> root.id]}),
                         c.owner, c.subject,
                         Prefix(_flatten_mind_tree(tree), PairLimit)),
                     c.owner, c.subject, root.id, c.concept_names)]

\* the two branches: the AI tree is merged, or the flat tree is built
Expand(c, root, gen) ==
    Conclude(c, root, gen.calls,
             IF gen.ok
             THEN MergeTree(c, root, gen.value.tree,
                            RenameRoot(root.db, root.id, gen.value.tree, c.title))
             ELSE [failed |-> FALSE,
                   st |-> FlatSeeds(MergeState(root.db, root.id, {}),
                                    c.owner, c.subject, root.id, c.concept_names)])

\* the request once its root node is looked up; root.id = 0 is None
WithRoot(c, root) ==
    IF root.id = 0 THEN Rejected(c.db, 500)
    ELSE Expand(c, root,
                IF c.mode = "ai" THEN run_gemini_mindmap_tree(c.ai)
                ELSE [ok |-> FALSE, value |-> c.ai.payload, calls |-> 0])

\* (entry.title or '').strip() or the default title of the source type
SourceTitle(title, source_type) ==
    IF title # NoneValue /\ Strip(title) # <<>> THEN Strip(title)
    ELSE IF source_type = "note" THEN DefaultNoteTitle ELSE DefaultErrorTitle

\* the request once its record is loaded; x = [subject, concepts] is what
\* the extractor of the source type gives for the record
WithEntry(db, note_rows, error_rows, req, ai, session_recovers, entry, x) ==
    WithRoot([db |-> db, note_rows |-> note_rows, error_rows |-> error_rows,
              ai |-> ai, session_recovers |-> session_recovers,
              owner |-> entry.user_id,
              subject |-> normalize_subject(x.subject),
              concept_names |-> x.concepts,
              title |-> SourceTitle(entry.title, req.source_type),
              mode |-> IF req.mode = "" THEN "ai" ELSE req.mode],
             get_or_create_knowledge_node(db, entry.user_id, normalize_subject(x.subject),
                                          SourceTitle(entry.title, req.source_type),
                                          "chapter"))

\* the request once its record is queried; at = 0 is None
WithRecord(db, note_rows, error_rows, req, ai, session_recovers, records, at) ==
    IF at = 0 THEN Rejected(db, 404)
    ELSE WithEntry(db, note_rows, error_rows, req, ai, session_recovers, records[at],
                   IF req.source_type = "note" THEN _extract_note_concepts(records[at])
                   ELSE _extract_error_concepts(records[at]))

\* the records of the source type of the request
SourceRecords(note_rows, error_rows, source_type) ==
    IF source_type = "note" THEN note_rows ELSE error_rows

\* The request is req = [user, source_type, source_id, mode]; source_id is
\* [numeric, value].  ai is the environment's part of the tree generation
\* call.  session_recovers says whether the database session is usable
\* after a commit that raised and was swallowed without a rollback: when it
\* is not, the next query raises and the request ends with status 500.
\* The result is [db, snapshots, response].
mind_map_generate(db, note_rows, error_rows, req, ai, session_recovers) ==
    IF req.source_type \notin {"note", "error_book"} THEN Rejected(db, 400)
    ELSE IF ~req.source_id.numeric THEN Rejected(db, 400)
    ELSE WithRecord(db, note_rows, error_rows, req, ai, session_recovers,
                    SourceRecords(note_rows, error_rows, req.source_type),
                    FindEntry(SourceRecords(note_rows, error_rows, req.source_type),
                              req.source_id.value, AccessUserIds(req.user)))

(***************************************************************************)
(* Inputs of the knowledge-graph operations.                               *)
(***************************************************************************)

\* bounds of the model
MaxRecords == 2        \* source records saved
MaxGenerations == 1    \* mind-map requests
MaxCalls == 3          \* direct calls of get_or_create_knowledge_node
OrphanChains == 17     \* parent-child chains below the unnamed child of an AI tree

Note(title, key_terms, summary_points) ==
    [user_id |-> 1, subject |-> Maths, title |-> title, has_summary |-> TRUE,
     key_terms |-> key_terms, summary_points |-> summary_points]

NotePool ==
    { Note(T, <<X, Y>>, <<>>),
      Note(X, <<X, Y>>, <<>>),
      Note(Dash, <<Y, Z>>, <<>>),
      Note(NoneValue, <<>>, << <<"y", "uFF1A", "z">>, Z, <<"u0020">> >>) }

ErrorEntry(title, ai_analysis) ==
    [user_id |-> 1, subject |-> MathsEnglish, title |-> title, ai_analysis |-> ai_analysis]

ErrorPool ==
    { ErrorEntry(T, JsonText(Analysis(<<X, NoneValue>>, <<Z, PaddedX>>))),
      ErrorEntry(<<>>, <<>>) }

Leaf(name, kind) == [type |-> "dict", name |-> name, kind |-> kind, children |-> <<>>]
Node(name, kind, children) ==
    [type |-> "dict", name |-> name, kind |-> kind, children |-> children]
NotAnObject == [type |-> "other"]

\* a root whose only child has no name and has n children P(i), each with
\* one child Q(i), all of different names
OrphanChainTree(n) ==
    Node(T, "chapter",
         << Node(<<>>, "",
                 [i \in 1..n |->
                     Node(Numbered(i), "method", <<Leaf(Numbered(50 + i), "")>>)]) >>)

AiTrees ==
    { Node(T, "chapter", << Node(X, " method ", <<Leaf(Y, "topic")>>), NotAnObject >>),
      Node(X, "chapter", << Leaf(Z, "mistake"), Leaf(X, "concept") >>),
      Node(<<"r">>, "", << Node(<<>>, "", <<Node(Y, "", <<Leaf(Z, "")>>)>>),
                           Leaf(<<"r", "u003A">>, " ") >>),
      OrphanChainTree(OrphanChains) }

AllText == <<"text", "text", "text">>

AiEnv(configured, attempts, payload) ==
    [configured |-> configured, attempts |-> attempts, payload |-> payload]

Payload(tree) == [type |-> "dict", tree |-> tree]

\* what the generation does when it yields a tree
AiSuccesses ==
    {AiEnv(TRUE, AllText, Payload(t)) : t \in AiTrees}
    \union {AiEnv(TRUE, <<"transient", "empty", "text">>, Payload(Leaf(T, "chapter")))}

\* what the generation does when it fails
AiFailures ==
    { AiEnv(FALSE, AllText, Payload(Leaf(T, "chapter"))),
      AiEnv(TRUE, <<"transient", "transient", "transient">>, Payload(Leaf(T, "chapter"))),
      AiEnv(TRUE, <<"permanent", "text", "text">>, Payload(Leaf(T, "chapter"))),
      AiEnv(TRUE, AllText, [type |-> "other"]),
      AiEnv(TRUE, AllText, Payload(NotAnObject)),
      AiEnv(TRUE, AllText, Payload(Leaf(<<"u0020">>, "chapter"))) }

\* the environment of a request that makes no generation call
NoAi == AiEnv(FALSE, AllText, [type |-> "other"])

SourceId(v) == [numeric |-> TRUE, value |-> v]
NotANumber == [numeric |-> FALSE, value |-> 0]

Request(user, source_type, source_id, mode) ==
    [user |-> user, source_type |-> source_type, source_id |-> source_id, mode |-> mode]

(***************************************************************************)
(* The knowledge-graph state machine.                                      *)
(***************************************************************************)

Db == [nodes |-> knowledge_nodes, now |-> now]

\* a record with its primary key
WithId(rec, id) ==
    [k \in (DOMAIN rec) \union {"id"} |-> IF k = "id" THEN id ELSE rec[k]]

Call(op, args) == [op |-> op, args |-> args]

\* a note is summarized and saved: _summarize_and_persist_note commits the
\* entry, then calls upsert_knowledge_from_note
SaveNote(rec) ==
    /\ ops.records < MaxRecords
    /\ \E entry \in {WithId(rec, Len(notes) + 1)} :
       \E db \in {upsert_knowledge_from_note(Db, entry)} :
          /\ notes' = Append(notes, entry)
          /\ knowledge_nodes' = db.nodes
          /\ now' = db.now
          /\ lastCall' = Call("save_note", entry)
          /\ lastResult' = [id |-> entry.id]
    /\ ops' = [ops EXCEPT !.records = @ + 1]
    /\ UNCHANGED <<errors, snapshots, normVars, jobVars, callers, bindVars>>

\* an error entry is analysed and saved: error_book_entries commits the
\* entry, then calls upsert_knowledge_from_error
SaveError(rec) ==
    /\ ops.records < MaxRecords
    /\ \E entry \in {WithId(rec, Len(errors) + 1)} :
       \E db \in {upsert_knowledge_from_error(Db, entry)} :
          /\ errors' = Append(errors, entry)
          /\ knowledge_nodes' = db.nodes
          /\ now' = db.now
          /\ lastCall' = Call("save_error", entry)
          /\ lastResult' = [id |-> entry.id]
    /\ ops' = [ops EXCEPT !.records = @ + 1]
    /\ UNCHANGED <<notes, snapshots, normVars, jobVars, callers, bindVars>>

\* the request is for the record of the request served just before, which
\* was answered with status 200
RepeatsLast(req) ==
    /\ lastCall.op = "mind_map_generate"
    /\ lastCall.args.req.source_type = req.source_type
    /\ lastCall.args.req.source_id = req.source_id
    /\ lastResult.status = 200

\* the handler of POST /api/mind-map/generate serves one request
Serve(req, ai, session_recovers) ==
    /\ \E r \in {mind_map_generate(Db, notes, errors, req, ai, session_recovers)} :
          /\ knowledge_nodes' = r.db.nodes
          /\ now' = r.db.now
          /\ snapshots' = snapshots + r.snapshots
          /\ lastResult' = r.response
    /\ ops' = [ops EXCEPT !.generations = @ + 1]
    /\ lastCall' = Call("mind_map_generate",
                        [req |-> req, ai |-> ai, repeat |-> RepeatsLast(req)])
    /\ UNCHANGED <<notes, errors, normVars, jobVars, callers, bindVars>>

\* one request POST /api/mind-map/generate
MindMapGenerate(req, ai, session_recovers) ==
    ops.generations < MaxGenerations /\ Serve(req, ai, session_recovers)

\* the requests made: for every stored record, in each mode, by its owner,
\* one by the owner's parent, and one of each kind of rejected request
GoodRequests ==
    {Request(1, "note", SourceId(i), m) : i \in 1..Len(notes), m \in {"ai", "simple"}}
    \union
    {Request(1, "error_book", SourceId(i), m) : i \in 1..Len(errors), m \in {"ai", "simple"}}

ParentRequest == Request(2, "note", SourceId(1), "")

BadRequests ==
    UNION {{ Request(1, "quiz", SourceId(1), m),
             Request(1, "note", NotANumber, m),
             Request(1, "note", SourceId(Len(notes) + 1), m),
             Request(3, "error_book", SourceId(1), m) } : m \in {"simple", "ai"}}

\* an environment in which a generation call would yield a tree at once
ReadyAi == AiEnv(TRUE, AllText, Payload(Leaf(T, "chapter")))

GenerateSimple == \E req \in GoodRequests : req.mode = "simple" /\ MindMapGenerate(req, NoAi, TRUE)

GenerateAi ==
    \E req \in GoodRequests \union {ParentRequest} :
        /\ req.mode # "simple"
        /\ \/ \E ai \in AiSuccesses, rec \in BOOLEAN : MindMapGenerate(req, ai, rec)
           \/ \E ai \in AiFailures : MindMapGenerate(req, ai, TRUE)

GenerateRejected ==
    \E req \in BadRequests, ai \in {NoAi, ReadyAi} : MindMapGenerate(req, ai, TRUE)

GraphNext ==
    \/ \E rec \in NotePool : SaveNote(rec)
    \/ \E rec \in ErrorPool : SaveError(rec)
    \/ GenerateSimple
    \/ GenerateAi
    \/ GenerateRejected

\* the state after start-up: empty tables, no request served
Init ==
    /\ knowledge_nodes = <<>>
    /\ notes = <<>>
    /\ errors = <<>>
    /\ now = 0
    /\ snapshots = 0
    /\ ops = [records |-> 0, calls |-> 0, generations |-> 0]
    /\ lastCall = Call("none", <<>>)
    /\ lastResult = [id |-> 0]
    /\ normIn = <<>>
    /\ normOut = <<>>
    /\ normPasses = 0
    /\ running = {}
    /\ noteStatus = <<>>
    /\ reqs = <<>>
    /\ jobs = <<>>
    /\ started = 0
    /\ lastStart = FALSE
    /\ callers = <<>>
    /\ bind_requests = <<>>
    /\ linked_user_id = <<>>
Next == GraphNext
Spec == Init /\ [][Next]_vars

(***************************************************************************)
(* The node store alone: a sequence of get_or_create_knowledge_node calls, *)
(* with the arguments its callers pass.                                    *)
(***************************************************************************)

\* one call of get_or_create_knowledge_node; the result records the node
\* returned and whether the call repeats the arguments of the previous call
GetOrCreate(owner, subject, name, kind) ==
    /\ ops.calls < MaxCalls
    /\ \E r \in {get_or_create_knowledge_node(Db, owner, subject, name, kind)} :
          /\ knowledge_nodes' = r.db.nodes
          /\ now' = r.db.now
          /\ lastResult' = [id |-> r.id,
                            kind |-> kind,
                            repeat |-> /\ lastCall.op = "get_or_create"
                                       /\ lastCall.args = <<owner, subject, name>>]
    /\ ops' = [ops EXCEPT !.calls = @ + 1]
    /\ lastCall' = Call("get_or_create", <<owner, subject, name>>)
    /\ UNCHANGED <<notes, errors, snapshots, normVars, jobVars, callers, bindVars>>

StoreNext ==
    \E owner \in {1, 2}, subject \in {Maths, MathsEnglish},
       name \in {X, PaddedX, Dash}, kind \in {"concept", "chapter", "method", "mistake"} :
        GetOrCreate(owner, subject, name, kind)

SpecStore == Init /\ [][StoreNext]_vars

(***************************************************************************)
(* get_or_create_knowledge_node called by two requests at once: each call  *)
(* makes its query, then its commit, and the steps of the two interleave.  *)
(***************************************************************************)

Callers == {1, 2}

\* the arguments of one call
CallerArgs ==
    {[owner |-> owner, subject |-> Maths, name |-> name, kind |-> kind] :
        owner \in {1, 2}, name \in {X, PaddedX, Y, Dash}, kind \in {"concept", "chapter"}}

\* a call before its first step
NewCaller(args) == [pc |-> "query", args |-> args, found |-> 0, id |-> 0, raised |-> FALSE]

RaceInit ==
    /\ knowledge_nodes = <<>>
    /\ notes = <<>>
    /\ errors = <<>>
    /\ now = 0
    /\ snapshots = 0
    /\ ops = [records |-> 0, calls |-> 0, generations |-> 0]
    /\ lastCall = Call("", <<>>)
    /\ lastResult = [id |-> 0]
    /\ normIn = <<>>
    /\ normOut = <<>>
    /\ normPasses = 0
    /\ running = {}
    /\ noteStatus = <<>>
    /\ reqs = <<>>
    /\ jobs = <<>>
    /\ started = 0
    /\ lastStart = FALSE
    /\ \E a \in CallerArgs, b \in CallerArgs : callers = <<NewCaller(a), NewCaller(b)>>
    /\ bind_requests = <<>>
    /\ linked_user_id = <<>>

\* the caller's position once its query has returned the row found
Queried(caller, name_norm, found) ==
    IF name_norm = <<>> THEN [caller EXCEPT !.pc = "done"]
    ELSE [caller EXCEPT !.pc = "commit", !.found = found]

\* the two normalizations and the query of caller c
RaceQuery(c) ==
    /\ callers[c].pc = "query"
    /\ callers' = [callers EXCEPT ![c] =
          Queried(@, _normalize_concept_name(@.args.name),
                  FindNode(Db, @.args.owner, normalize_subject(@.args.subject),
                           _normalize_concept_name(@.args.name)))]
    /\ UNCHANGED <<knowledge_nodes, notes, errors, now, snapshots, ops, lastCall, lastResult,
                   normVars, jobVars, bindVars>>

\* save_and_commit of caller c, of the row found or of a new row, accepted
RaceCommit(c) ==
    /\ callers[c].pc = "commit"
    /\ \/ callers[c].found # 0
       \/ ~UniqueRefuses(Db, callers[c].args.owner, normalize_subject(callers[c].args.subject),
                         _normalize_concept_name(callers[c].args.name))
    /\ \E r \in {StoreNode(Db, callers[c].args.owner, normalize_subject(callers[c].args.subject),
                           _normalize_concept_name(callers[c].args.name),
                           callers[c].args.kind, callers[c].found, now + 1)} :
          /\ knowledge_nodes' = r.db.nodes
          /\ now' = r.db.now
          /\ callers' = [callers EXCEPT ![c].pc = "done", ![c].id = r.id]
    /\ UNCHANGED <<notes, errors, snapshots, ops, lastCall, lastResult, normVars, jobVars, bindVars>>

\* save_and_commit of caller c, of a new row, refused: the commit raises
RaceCommitRaises(c) ==
    /\ callers[c].pc = "commit"
    /\ callers[c].found = 0
    /\ UniqueRefuses(Db, callers[c].args.owner, normalize_subject(callers[c].args.subject),
                     _normalize_concept_name(callers[c].args.name))
    /\ callers' = [callers EXCEPT ![c].pc = "done", ![c].raised = TRUE]
    /\ UNCHANGED <<knowledge_nodes, notes, errors, now, snapshots, ops, lastCall, lastResult,
                   normVars, jobVars, bindVars>>

RaceNext ==
    \/ \E c \in Callers : RaceQuery(c)
    \/ \E c \in Callers : RaceCommit(c)
    \/ \E c \in Callers : RaceCommitRaises(c)

SpecRace == RaceInit /\ [][RaceNext]_vars

(***************************************************************************)
(* The generation calls alone: the environment of one call of              *)
(* run_gemini_mindmap_tree or run_gemini_mindmap_compare is given and the  *)
(* call is made.                                                           *)
(***************************************************************************)

\* what one generate_content call can do
Outcomes == {"text", "empty", "transient", "timeout", "tls", "permanent"}

AttemptLists == [1..MaxAttempts -> Outcomes]

\* what the text of a tree generation parses to: a tree, something that is
\* not an object, an object without a tree, a tree without a name
TreePayloads ==
    { Payload(Leaf(T, "chapter")), [type |-> "other"], Payload(NotAnObject),
      Payload(Leaf(<<"u0020">>, "chapter")) }

\* what the text of a comparison parses to: an object with a comparisons
\* list, something that is not an object, an object without such a list
ComparePayloads ==
    { [type |-> "dict", comparisons |-> [type |-> "list"]], [type |-> "other"],
      [type |-> "dict", comparisons |-> [type |-> "other"]] }

RetryInit ==
    /\ knowledge_nodes = <<>>
    /\ notes = <<>>
    /\ errors = <<>>
    /\ now = 0
    /\ snapshots = 0
    /\ ops = [records |-> 0, calls |-> 0, generations |-> 0]
    /\ \E configured \in BOOLEAN, attempts \in AttemptLists :
          \/ \E payload \in TreePayloads :
                lastCall = Call("tree", AiEnv(configured, attempts, payload))
          \/ \E payload \in ComparePayloads :
                lastCall = Call("compare", AiEnv(configured, attempts, payload))
    /\ lastResult = [id |-> 0]
    /\ normIn = <<>>
    /\ normOut = <<>>
    /\ normPasses = 0
    /\ running = {}
    /\ noteStatus = <<>>
    /\ reqs = <<>>
    /\ jobs = <<>>
    /\ started = 0
    /\ lastStart = FALSE
    /\ callers = <<>>
    /\ bind_requests = <<>>
    /\ linked_user_id = <<>>

\* one call of run_gemini_mindmap_tree
RunTree ==
    /\ lastCall.op = "tree"
    /\ lastCall' = Call("run_gemini_mindmap_tree", lastCall.args)
    /\ lastResult' = run_gemini_mindmap_tree(lastCall.args)
    /\ UNCHANGED <<knowledge_nodes, notes, errors, now, snapshots, ops, normVars, jobVars, callers, bindVars>>

\* one call of run_gemini_mindmap_compare
RunCompare ==
    /\ lastCall.op = "compare"
    /\ lastCall' = Call("run_gemini_mindmap_compare", lastCall.args)
    /\ lastResult' = run_gemini_mindmap_compare(lastCall.args)
    /\ UNCHANGED <<knowledge_nodes, notes, errors, now, snapshots, ops, normVars, jobVars, callers, bindVars>>

RetryNext == RunTree \/ RunCompare

SpecRetry == RetryInit /\ [][RetryNext]_vars

(***************************************************************************)
(* Simple mode alone: records are saved and simple-mode requests are       *)
(* served one after another, by the owner of the record or by the owner's  *)
(* parent.                                                                 *)
(***************************************************************************)

MaxSimple == 2     \* simple-mode requests

SimpleRequests ==
    {Request(u, "note", SourceId(i), "simple") : u \in {1, 2}, i \in 1..Len(notes)}
    \union
    {Request(u, "error_book", SourceId(i), "simple") : u \in {1, 2}, i \in 1..Len(errors)}

FlatSaveNote == \E rec \in NotePool : SaveNote(rec)

FlatSaveError == \E rec \in ErrorPool : SaveError(rec)

FlatGenerate ==
    /\ ops.generations < MaxSimple
    /\ \E req \in SimpleRequests : Serve(req, NoAi, TRUE)

FlatNext == FlatSaveNote \/ FlatSaveError \/ FlatGenerate

SpecFlat == Init /\ [][FlatNext]_vars

(***************************************************************************)
(* Mastery ranking of _compute_dashboard_summary_payload.  A mastery row   *)
(* is [node_id, name, mistake_count, note_count]; the rows are built in    *)
(* the order of the node query and then sorted with list.sort, which is    *)
(* stable, on the key (-mistake_count, -note_count, name).                 *)
(***************************************************************************)

MaxRows == 3       \* knowledge nodes listed
MasteryCap == 40   \* knowledge_mastery[:40]

\* the letters and digits in the order of their code points
CodeOrder == Digits \o UpperCase \o LowerCase

CodePoint(c) == CHOOSE i \in DOMAIN CodeOrder : CodeOrder[i] = c

\* a < b for two str values of letters and digits
RECURSIVE StrLess(_, _)
StrLess(a, b) ==
    IF b = <<>> THEN FALSE
    ELSE IF a = <<>> THEN TRUE
    ELSE IF Head(a) = Head(b) THEN StrLess(Tail(a), Tail(b))
    ELSE CodePoint(Head(a)) < CodePoint(Head(b))

\* the sort key with the note count ascending
SortKeyNoteAscending(x, y) ==
    \/ x.mistake_count > y.mistake_count
    \/ x.mistake_count = y.mistake_count /\ x.note_count < y.note_count
    \/ /\ x.mistake_count = y.mistake_count
       /\ x.note_count = y.note_count
       /\ StrLess(x.name, y.name)

\* key(x) < key(y) for the key (-mistake_count, -note_count, name)
SortKeyLess(x, y) ==
    \/ x.mistake_count > y.mistake_count
    \/ x.mistake_count = y.mistake_count /\ x.note_count > y.note_count
    \/ /\ x.mistake_count = y.mistake_count
       /\ x.note_count = y.note_count
       /\ StrLess(x.name, y.name)

\* x put into a sorted list after the rows whose key is not greater
RECURSIVE InsertRow(_, _)
InsertRow(x, sorted) ==
    IF sorted = <<>> THEN <<x>>
    ELSE IF SortKeyLess(x, Head(sorted)) THEN <<x>> \o sorted
    ELSE <<Head(sorted)>> \o InsertRow(x, Tail(sorted))

\* list.sort(key=...): a stable sort
RECURSIVE SortRows(_)
SortRows(rows) ==
    IF rows = <<>> THEN <<>>
    ELSE InsertRow(rows[Len(rows)], SortRows(SubSeq(rows, 1, Len(rows) - 1)))

\* the 'mastery' list of the payload
knowledge_mastery(rows) == Prefix(SortRows(rows), MasteryCap)

RankNames == {<<"A">>, <<"B">>, <<"C">>}
MistakeCounts == {1, 3}
NoteCounts == {0, 1, 2}

MasteryRow(id, name, mistake_count, note_count) ==
    [node_id |-> id, name |-> name, mistake_count |-> mistake_count,
     note_count |-> note_count]

\* the lists of n rows, row i being that of node i
RECURSIVE RowLists(_)
RowLists(n) ==
    IF n = 0 THEN {<<>>}
    ELSE {Append(rows, MasteryRow(n, name, m, k)) :
             rows \in RowLists(n - 1), name \in RankNames,
             m \in MistakeCounts, k \in NoteCounts}

RankInit ==
    /\ knowledge_nodes = <<>>
    /\ notes = <<>>
    /\ errors = <<>>
    /\ now = 0
    /\ snapshots = 0
    /\ ops = [records |-> 0, calls |-> 0, generations |-> 0]
    /\ \E n \in 0..MaxRows : \E rows \in RowLists(n) : lastCall = Call("mastery_rows", rows)
    /\ lastResult = [id |-> 0]
    /\ normIn = <<>>
    /\ normOut = <<>>
    /\ normPasses = 0
    /\ running = {}
    /\ noteStatus = <<>>
    /\ reqs = <<>>
    /\ jobs = <<>>
    /\ started = 0
    /\ lastStart = FALSE
    /\ callers = <<>>
    /\ bind_requests = <<>>
    /\ linked_user_id = <<>>

\* the rows are sorted and put into the payload
Rank ==
    /\ lastCall.op = "mastery_rows"
    /\ lastCall' = Call("dashboard_summary", lastCall.args)
    /\ lastResult' = [mastery |-> knowledge_mastery(lastCall.args)]
    /\ UNCHANGED <<knowledge_nodes, notes, errors, now, snapshots, ops, normVars, jobVars, callers, bindVars>>

SpecRank == RankInit /\ [][Rank]_vars

(***************************************************************************)
(* The concept extractors alone: a source record is given and its          *)
(* extractor is applied.                                                   *)
(***************************************************************************)

MaxTerms == 17     \* further key terms of a long key_terms list

\* 13 letters without a colon
LongPoint == [i \in 1..13 |-> IF i = 13 THEN "b" ELSE "a"]

KeyTermLists ==
    { <<>>, <<X, Y>>, <<PaddedX, X, Y>>, <<Dash, NoneValue>>, <<Y, Dash, X, Y>> }
    \union {<<X, Dash, PaddedX>> \o ManyTerms(n) : n \in (MaxTerms - 2)..MaxTerms}

SummaryPointLists ==
    { <<>>,
      << <<"y", "uFF1A", "z">>, Z, <<"u0020">> >>,
      << <<"u0020", "y", "u0020", "uFF1A", "z", "uFF1A", "x">>, LongPoint, <<"y", "u003A", "z">> >> }

ExtractNoteInputs ==
    {[subject |-> subject, has_summary |-> has_summary, key_terms |-> key_terms,
      summary_points |-> summary_points] :
        subject \in {Maths, MathsEnglish, NoneValue}, has_summary \in BOOLEAN,
        key_terms \in KeyTermLists, summary_points \in SummaryPointLists}

Json == <<"j", "s", "o", "n">>

\* the texts in which the JSON text j of an object is wrapped in a fence
FencedTexts(j) ==
    { Fence \o tag \o before \o j \o after \o Fence :
        tag \in {<<>>, Json}, before \in {<<>>, <<Newline>>}, after \in {<<>>, <<Newline>>} }

\* the texts that hold the JSON text j of an object
HoldingTexts(j) ==
    {j, <<"x", "u0020">> \o j \o <<"u0020", "y">>, <<Newline>> \o j \o <<Newline>>}
    \union FencedTexts(j)
    \union {<<"x", Newline>> \o Fence \o Json \o <<Newline>> \o j \o <<Newline>> \o Fence}

AnalysisTexts ==
    UNION {HoldingTexts(JsonText(obj)) : obj \in AnalysisObjects}
    \union { <<>>, X, <<OpenBrace, "x">>, Fence,
             <<OpenBrace, Quote, "x", Backslash, Quote, CloseBrace, Quote, CloseBrace>> }

\* the JSON text of the object of the first example
ExampleJson == JsonText(Analysis(<<X, NoneValue>>, <<Z, PaddedX>>))

\* texts with braces or quotes around an object
ScanTexts ==
    AnalysisTexts
    \union { <<"x", OpenBrace, "y", "u0020">> \o ExampleJson,
             <<OpenBrace, "y", CloseBrace, "u0020">> \o ExampleJson,
             <<"x", CloseBrace, "u0020">> \o ExampleJson,
             <<Quote, "x", "u0020">> \o ExampleJson \o <<Quote>>,
             ExampleJson \o <<"u0020">> \o JsonMistake(Y),
             JsonMistake(Y) \o <<CloseBrace, "u0020">> \o ExampleJson,
             SubSeq(ExampleJson, 1, Len(ExampleJson) - 1) }

ExtractErrorInputs ==
    {[subject |-> subject, ai_analysis |-> ai_analysis] :
        subject \in {Maths, MathsEnglish}, ai_analysis \in AnalysisTexts}

ExtractInit ==
    /\ knowledge_nodes = <<>>
    /\ notes = <<>>
    /\ errors = <<>>
    /\ now = 0
    /\ snapshots = 0
    /\ ops = [records |-> 0, calls |-> 0, generations |-> 0]
    /\ \/ \E entry \in ExtractNoteInputs : lastCall = Call("note_entry", entry)
       \/ \E entry \in ExtractErrorInputs : lastCall = Call("error_entry", entry)
       \/ \E text \in ScanTexts : lastCall = Call("text", text)
    /\ lastResult = [id |-> 0]
    /\ normIn = <<>>
    /\ normOut = <<>>
    /\ normPasses = 0
    /\ running = {}
    /\ noteStatus = <<>>
    /\ reqs = <<>>
    /\ jobs = <<>>
    /\ started = 0
    /\ lastStart = FALSE
    /\ callers = <<>>
    /\ bind_requests = <<>>
    /\ linked_user_id = <<>>

\* _extract_note_concepts is applied to the note
ExtractNote ==
    /\ lastCall.op = "note_entry"
    /\ lastCall' = Call("_extract_note_concepts", lastCall.args)
    /\ lastResult' = _extract_note_concepts(lastCall.args)
    /\ UNCHANGED <<knowledge_nodes, notes, errors, now, snapshots, ops, normVars, jobVars, callers, bindVars>>

\* _extract_error_concepts is applied to the error entry
ExtractError ==
    /\ lastCall.op = "error_entry"
    /\ lastCall' = Call("_extract_error_concepts", lastCall.args)
    /\ lastResult' = _extract_error_concepts(lastCall.args)
    /\ UNCHANGED <<knowledge_nodes, notes, errors, now, snapshots, ops, normVars, jobVars, callers, bindVars>>

\* _extract_first_json_object is applied to the text
ExtractObject ==
    /\ lastCall.op = "text"
    /\ lastCall' = Call("_extract_first_json_object", lastCall.args)
    /\ lastResult' = [object |-> _extract_first_json_object(lastCall.args)]
    /\ UNCHANGED <<knowledge_nodes, notes, errors, now, snapshots, ops, normVars, jobVars, callers, bindVars>>

ExtractNext == ExtractNote \/ ExtractError \/ ExtractObject

SpecExtract == ExtractInit /\ [][ExtractNext]_vars

(***************************************************************************)
(* The extractors on stored contents of every type: an entry is given and  *)
(* its concepts are extracted.                                             *)
(***************************************************************************)

\* items of the lists of a stored object
StoredItems ==
    { PyNone, PyStr(X), PyStr(<<"u0020">>), PyInt(<<"5">>), PyInt(<<"0">>), PyTrue,
      PyList(<<PyStr(Y)>>), PyDict(<<PyEntry(ConceptKey, PyStr(Z))>>),
      PyDict(<<PyEntry(ConceptKey, PyInt(<<"5">>))>>), PyDict(<<PyEntry(X, PyNone)>>) }

\* values stored under a key
StoredFields ==
    { PyNone, PyStr(X), PyInt(<<"5">>), PyDict(<<PyEntry(ConceptKey, PyStr(Z))>>), PyList(<<>>) }
    \union {PyList(<<a>>) : a \in StoredItems}
    \union {PyList(<<a, PyStr(Y)>>) : a \in StoredItems}

\* the values json.loads or ast.literal_eval may return for a stored text
StoredValues ==
    { PyNone, PyStr(X), PyInt(<<"5">>), PyTrue, PyList(<<PyStr(X)>>),
      PyList(<<PyDict(<<PyEntry(KeyTermsKey, PyList(<<PyStr(X)>>))>>)>>),
      PyDict(<<>>) }
    \union {PyDict(<<PyEntry(KeyTermsKey, a)>>) : a \in StoredFields}
    \union {PyDict(<<PyEntry(SummaryPointsKey, a)>>) : a \in StoredFields}
    \union {PyDict(<<PyEntry(KeyTermsKey, PyList(<<PyInt(<<"0">>)>>)),
                     PyEntry(SummaryPointsKey, a)>>) : a \in StoredFields}
    \union {PyDict(<<PyEntry(MistakesKey, a)>>) : a \in StoredFields}
    \union {PyDict(<<PyEntry(MistakesKey, a), PyEntry(KeyPointsKey, a)>>) : a \in StoredFields}

\* the stored contents: None or blank text, a text neither parser accepts,
\* a Python literal that is not JSON, and the JSON text of a value
StoredContents ==
    {[subject |-> subject, has_text |-> FALSE, json |-> Raised, literal |-> Raised] :
        subject \in {Maths, NoneValue}}
    \union {[subject |-> subject, has_text |-> TRUE, json |-> Raised, literal |-> Raised] :
        subject \in {Maths, NoneValue}}
    \union {[subject |-> Maths, has_text |-> TRUE, json |-> Raised, literal |-> Returned(v)] :
        v \in StoredValues}
    \union {[subject |-> Maths, has_text |-> TRUE, json |-> Returned(v), literal |-> Raised] :
        v \in StoredValues}

ContentInit ==
    /\ knowledge_nodes = <<>>
    /\ notes = <<>>
    /\ errors = <<>>
    /\ now = 0
    /\ snapshots = 0
    /\ ops = [records |-> 0, calls |-> 0, generations |-> 0]
    /\ \E entry \in StoredContents, kind \in {"note_entry", "error_entry"} :
          lastCall = Call(kind, entry)
    /\ lastResult = [id |-> 0]
    /\ normIn = <<>>
    /\ normOut = <<>>
    /\ normPasses = 0
    /\ running = {}
    /\ noteStatus = <<>>
    /\ reqs = <<>>
    /\ jobs = <<>>
    /\ started = 0
    /\ lastStart = FALSE
    /\ callers = <<>>
    /\ bind_requests = <<>>
    /\ linked_user_id = <<>>

\* _extract_note_concepts is applied to the note
ExtractNoteContent ==
    /\ lastCall.op = "note_entry"
    /\ lastCall' = Call("_extract_note_concepts", lastCall.args)
    /\ lastResult' = NoteContentConcepts(lastCall.args)
    /\ UNCHANGED <<knowledge_nodes, notes, errors, now, snapshots, ops, normVars, jobVars, callers, bindVars>>

\* _extract_error_concepts is applied to the error entry
ExtractErrorContent ==
    /\ lastCall.op = "error_entry"
    /\ lastCall' = Call("_extract_error_concepts", lastCall.args)
    /\ lastResult' = ErrorContentConcepts(lastCall.args)
    /\ UNCHANGED <<knowledge_nodes, notes, errors, now, snapshots, ops, normVars, jobVars, callers, bindVars>>

ContentNext == ExtractNoteContent \/ ExtractErrorContent

SpecContent == ContentInit /\ [][ContentNext]_vars

(***************************************************************************)
(* The subject normalizer alone: a subject is given and normalized.        *)
(***************************************************************************)

MaxPieces == 3     \* pieces of which a subject text is made

\* the pieces: nothing, a space, two prefixes, two canonical labels, three
\* aliases, two English words and a letter
SubjectPieces ==
    { <<>>, <<"u0020">>,
      <<"u79D1", "u76EE", "u003A">>, <<"S", "u", "b", "j", "e", "c", "t", "u003A">>,
      <<"u6570", "u5B66">>, Unclassified,
      <<"u4F5C", "u6587">>, <<"u5176", "u4ED6">>, <<"u4F53", "u80B2">>,
      <<"M", "a", "t", "h">>, <<"b", "i", "o">>, X }

RECURSIVE Concatenated(_)
Concatenated(pieces) ==
    IF pieces = <<>> THEN <<>> ELSE Head(pieces) \o Concatenated(Tail(pieces))

SubjectInputs ==
    {NoneValue} \union {Concatenated(ps) : ps \in [1..MaxPieces -> SubjectPieces]}

SubjectInit ==
    /\ knowledge_nodes = <<>>
    /\ notes = <<>>
    /\ errors = <<>>
    /\ now = 0
    /\ snapshots = 0
    /\ ops = [records |-> 0, calls |-> 0, generations |-> 0]
    /\ \E subject \in SubjectInputs : lastCall = Call("subject", subject)
    /\ lastResult = [id |-> 0]
    /\ normIn = <<>>
    /\ normOut = <<>>
    /\ normPasses = 0
    /\ running = {}
    /\ noteStatus = <<>>
    /\ reqs = <<>>
    /\ jobs = <<>>
    /\ started = 0
    /\ lastStart = FALSE
    /\ callers = <<>>
    /\ bind_requests = <<>>
    /\ linked_user_id = <<>>

\* normalize_subject is applied to the subject
NormalizeSubject ==
    /\ lastCall.op = "subject"
    /\ lastCall' = Call("normalize_subject", lastCall.args)
    /\ lastResult' = [label |-> normalize_subject(lastCall.args)]
    /\ UNCHANGED <<knowledge_nodes, notes, errors, now, snapshots, ops, normVars, jobVars, callers, bindVars>>

SpecSubject == SubjectInit /\ [][NormalizeSubject]_vars

(***************************************************************************)
(* The concept normalizer alone: a text is normalized, then the result is  *)
(* normalized again.                                                       *)
(***************************************************************************)

MaxRun == 24       \* length of the run of letters in the middle of an input
MaxEdge == 2       \* length of the texts before and after the run
MaxPasses == 2     \* passes of the normalizer over one input

\* space, tab, ASCII colon, full-width comma and a letter
EdgeChars == {"u0020", "u0009", "u003A", "uFF0C", "b"}

RECURSIVE TextsUpTo(_)
TextsUpTo(n) ==
    IF n = 0 THEN {<<>>}
    ELSE LET shorter == TextsUpTo(n - 1)
         IN  shorter \union {Append(s, c) : s \in shorter, c \in EdgeChars}

Run(k) == [i \in 1..k |-> "a"]

NormInputs ==
    {NoneValue} \union
    {h \o Run(k) \o t : h \in TextsUpTo(1), k \in 0..MaxRun, t \in TextsUpTo(MaxEdge)}

NormInit ==
    /\ knowledge_nodes = <<>>
    /\ notes = <<>>
    /\ errors = <<>>
    /\ now = 0
    /\ snapshots = 0
    /\ ops = [records |-> 0, calls |-> 0, generations |-> 0]
    /\ lastCall = Call("none", <<>>)
    /\ lastResult = [id |-> 0]
    /\ normIn \in NormInputs
    /\ normOut = normIn
    /\ normPasses = 0
    /\ running = {}
    /\ noteStatus = <<>>
    /\ reqs = <<>>
    /\ jobs = <<>>
    /\ started = 0
    /\ lastStart = FALSE
    /\ callers = <<>>
    /\ bind_requests = <<>>
    /\ linked_user_id = <<>>

Normalize ==
    /\ normPasses < MaxPasses
    /\ normOut' = _normalize_concept_name(normOut)
    /\ normPasses' = normPasses + 1
    /\ UNCHANGED <<normIn, graphVars, jobVars, callers, bindVars>>

SpecNorm == NormInit /\ [][Normalize]_vars

(***************************************************************************)
(* Background note-summary jobs.  A summarize request runs                 *)
(* note_entry_summarize in a request thread: it commits status             *)
(* 'summarizing', then calls start_note_summary_job, which tests and       *)
(* extends _NOTE_SUMMARY_RUNNING under _NOTE_SUMMARY_LOCK and then starts  *)
(* the job thread.  A job thread runs _run_note_summary_job: it commits    *)
(* the outcome of the summary and, in its finally block, discards its      *)
(* entry id under the lock.  Each step below is one atomic section.        *)
(***************************************************************************)

MaxEntries == 2      \* note entries
MaxRequests == 3     \* summarize requests

Entries == 1..MaxEntries
Requests == 1..MaxRequests

JobsInit ==
    /\ knowledge_nodes = <<>>
    /\ notes = <<>>
    /\ errors = <<>>
    /\ now = 0
    /\ snapshots = 0
    /\ ops = [records |-> 0, calls |-> 0, generations |-> 0]
    /\ lastCall = Call("none", <<>>)
    /\ lastResult = [id |-> 0]
    /\ normIn = <<>>
    /\ normOut = <<>>
    /\ normPasses = 0
    /\ running = {}
    /\ noteStatus = [e \in Entries |-> "transcribed"]
    /\ reqs = [r \in Requests |-> [pc |-> "idle", entry |-> 0, result |-> "none"]]
    /\ jobs = <<>>
    /\ started = 0
    /\ lastStart = FALSE
    /\ callers = <<>>
    /\ bind_requests = <<>>
    /\ linked_user_id = <<>>

\* the test of start_note_summary_job made under the lock
AlreadyRunningNever(entry_id) == FALSE

AlreadyRunning(entry_id) == entry_id \in running

\* note_entry_summarize up to the commit of status 'summarizing'; without a
\* transcript the request is rejected with status 400
Summarize(r, e, has_transcript) ==
    /\ reqs[r].pc = "idle"
    /\ IF has_transcript
       THEN /\ noteStatus' = [noteStatus EXCEPT ![e] = "summarizing"]
            /\ reqs' = [reqs EXCEPT ![r] = [pc |-> "start", entry |-> e, result |-> "none"]]
       ELSE /\ reqs' = [reqs EXCEPT ![r] = [pc |-> "done", entry |-> e, result |-> "rejected"]]
            /\ UNCHANGED noteStatus
    /\ UNCHANGED <<running, jobs, started, lastStart, graphVars, normVars, callers, bindVars>>

\* start_note_summary_job, the section under the lock
StartLocked(r) ==
    /\ reqs[r].pc = "start"
    /\ IF AlreadyRunning(reqs[r].entry)
       THEN /\ reqs' = [reqs EXCEPT ![r].pc = "done", ![r].result = "already_running"]
            /\ lastStart' = FALSE
            /\ UNCHANGED running
       ELSE /\ running' = running \union {reqs[r].entry}
            /\ reqs' = [reqs EXCEPT ![r].pc = "spawn"]
            /\ UNCHANGED lastStart
    /\ UNCHANGED <<noteStatus, jobs, started, graphVars, normVars, callers, bindVars>>

\* start_note_summary_job: Thread.start() succeeds and True is returned
StartThread(r) ==
    /\ reqs[r].pc = "spawn"
    /\ jobs' = Append(jobs, [entry |-> reqs[r].entry, by |-> r, pc |-> "work"])
    /\ started' = started + 1
    /\ lastStart' = TRUE
    /\ reqs' = [reqs EXCEPT ![r].pc = "done", ![r].result = "started"]
    /\ UNCHANGED <<running, noteStatus, graphVars, normVars, callers, bindVars>>

\* start_note_summary_job: Thread.start() raises; the handler discards the
\* entry id and False is returned
StartThreadFails(r) ==
    /\ reqs[r].pc = "spawn"
    /\ running' = running \ {reqs[r].entry}
    /\ lastStart' = FALSE
    /\ reqs' = [reqs EXCEPT ![r].pc = "done", ![r].result = "start_failed"]
    /\ UNCHANGED <<noteStatus, jobs, started, graphVars, normVars, callers, bindVars>>

\* _run_note_summary_job up to its finally block: the summary succeeds and
\* status 'done' is committed, or it fails and 'summary_failed' is
JobWork(j, ok) ==
    /\ j \in DOMAIN jobs
    /\ jobs[j].pc = "work"
    /\ noteStatus' = [noteStatus EXCEPT ![jobs[j].entry] =
                          IF ok THEN "done" ELSE "summary_failed"]
    /\ jobs' = [jobs EXCEPT ![j].pc = "finally"]
    /\ UNCHANGED <<running, reqs, started, lastStart, graphVars, normVars, callers, bindVars>>

\* the finally block of _run_note_summary_job; the thread ends
JobFinally(j) ==
    /\ j \in DOMAIN jobs
    /\ jobs[j].pc = "finally"
    /\ running' = running \ {jobs[j].entry}
    /\ jobs' = [jobs EXCEPT ![j].pc = "done"]
    /\ UNCHANGED <<noteStatus, reqs, started, lastStart, graphVars, normVars, callers, bindVars>>

JobsNext ==
    \/ \E r \in Requests, e \in Entries, has_transcript \in BOOLEAN :
          Summarize(r, e, has_transcript)
    \/ \E r \in Requests : StartLocked(r)
    \/ \E r \in Requests : StartThread(r)
    \/ \E r \in Requests : StartThreadFails(r)
    \/ \E j \in 1..MaxRequests, ok \in BOOLEAN : JobWork(j, ok)
    \/ \E j \in 1..MaxRequests : JobFinally(j)

SpecJobs == JobsInit /\ [][JobsNext]_vars

(***************************************************************************)
(* Bind requests: a parent asks to be bound to a student with              *)
(* POST /api/bind/requests, the student answers with                       *)
(* POST /api/bind/requests/<id>/respond.                                   *)
(***************************************************************************)

MaxBindRows == 3     \* rows of table bind_requests

\* users 1 and 2 are parents, users 3 and 4 are students
BindUsers == 1..4
Role(u) == IF u <= 2 THEN "parent" ELSE "student"

BindInit ==
    /\ knowledge_nodes = <<>>
    /\ notes = <<>>
    /\ errors = <<>>
    /\ now = 0
    /\ snapshots = 0
    /\ ops = [records |-> 0, calls |-> 0, generations |-> 0]
    /\ lastCall = Call("none", <<>>)
    /\ lastResult = [id |-> 0]
    /\ normIn = <<>>
    /\ normOut = <<>>
    /\ normPasses = 0
    /\ running = {}
    /\ noteStatus = <<>>
    /\ reqs = <<>>
    /\ jobs = <<>>
    /\ started = 0
    /\ lastStart = FALSE
    /\ callers = <<>>
    /\ bind_requests = <<>>
    /\ linked_user_id = [u \in BindUsers |-> 0]

\* uq_bind_request_parent_student_status: the commit of row i with the new
\* status is refused when another row has its parent, student and status
UniqueStatusRefuses(rows, i, status) ==
    \E k \in DOMAIN rows :
        /\ k # i
        /\ rows[k].parent_id = rows[i].parent_id
        /\ rows[k].student_id = rows[i].student_id
        /\ rows[k].status = status

\* the pending requests of the parent for the student
PendingOf(rows, parent, student) ==
    {i \in DOMAIN rows : /\ rows[i].parent_id = parent
                         /\ rows[i].student_id = student
                         /\ rows[i].status = "pending"}

\* the status code of a create request that returns before the query for
\* an existing request, 0 when it does not; target is the user found by
\* email or nickname, 0 when none is found
CreateRefusal(user, target) ==
    IF Role(user) # "parent" THEN 403
    ELSE IF target = 0 THEN 404
    ELSE IF target = user THEN 400
    ELSE IF Role(target) # "student" THEN 400
    ELSE 0

\* bind_requests, method POST
CreateRequest(user, target) ==
    /\ Len(bind_requests) < MaxBindRows
    /\ lastCall' = Call("bind_requests", [user |-> user, target |-> target])
    /\ IF CreateRefusal(user, target) # 0
       THEN /\ lastResult' = [status |-> CreateRefusal(user, target), id |-> 0]
            /\ UNCHANGED bind_requests
       ELSE IF PendingOf(bind_requests, user, target) # {}
       THEN /\ lastResult' = [status |-> 200,
                              id |-> FirstOf(PendingOf(bind_requests, user, target))]
            /\ UNCHANGED bind_requests
       ELSE /\ bind_requests' = Append(bind_requests,
                                       [parent_id |-> user, student_id |-> target,
                                        status |-> "pending", responded_at |-> 0])
            /\ lastResult' = [status |-> 201, id |-> Len(bind_requests) + 1]
    /\ UNCHANGED <<knowledge_nodes, notes, errors, now, snapshots, ops, linked_user_id,
                   normVars, jobVars, callers>>

\* the status code of a respond request that returns before any change, 0
\* when it does not
RespondRefusal(user, request_id, action) ==
    IF Role(user) # "student" THEN 403
    ELSE IF request_id \notin DOMAIN bind_requests THEN 404
    ELSE IF bind_requests[request_id].student_id # user THEN 404
    ELSE IF bind_requests[request_id].status # "pending" THEN 400
    ELSE IF action \notin {"approve", "reject"} THEN 400
    ELSE 0

NewStatus(action) == IF action = "approve" THEN "approved" ELSE "rejected"

\* bind_request_respond; on approve the link of the student is committed
\* first, then the request; the commit of the request raises when the
\* unique constraint refuses it
BindRequestRespond(user, request_id, action) ==
    /\ lastCall' = Call("bind_request_respond",
                        [user |-> user, request_id |-> request_id, action |-> action])
    /\ IF RespondRefusal(user, request_id, action) # 0
       THEN /\ lastResult' = [status |-> RespondRefusal(user, request_id, action), id |-> 0]
            /\ UNCHANGED <<bind_requests, linked_user_id, now>>
       ELSE /\ linked_user_id' =
                   IF action = "approve"
                   THEN [linked_user_id EXCEPT ![user] = bind_requests[request_id].parent_id]
                   ELSE linked_user_id
            /\ IF UniqueStatusRefuses(bind_requests, request_id, NewStatus(action))
               THEN /\ lastResult' = [status |-> 500, id |-> request_id]
                    /\ UNCHANGED <<bind_requests, now>>
               ELSE /\ bind_requests' = [bind_requests EXCEPT
                                            ![request_id].status = NewStatus(action),
                                            ![request_id].responded_at = now + 1]
                    /\ now' = now + 1
                    /\ lastResult' = [status |-> 200, id |-> request_id]
    /\ UNCHANGED <<knowledge_nodes, notes, errors, snapshots, ops, normVars, jobVars, callers>>

BindNext ==
    \/ \E user \in BindUsers, target \in BindUsers \union {0} : CreateRequest(user, target)
    \/ \E user \in BindUsers, request_id \in 1..MaxBindRows,
          action \in {"approve", "reject", "cancel"} :
              BindRequestRespond(user, request_id, action)

SpecBind == BindInit /\ [][BindNext]_vars

\* the job threads of an entry that have not ended
LiveJobs(e) == {j \in DOMAIN jobs : jobs[j].entry = e /\ jobs[j].pc # "done"}

(***************************************************************************)
(* Properties.                                                             *)
(***************************************************************************)

IsGeneration == lastCall.op = "mind_map_generate"

\* the request served last named an existing record its user may read
ValidGeneration ==
    /\ IsGeneration
    /\ lastCall.args.req.source_type \in {"note", "error_book"}
    /\ lastCall.args.req.source_id.numeric
    /\ FindEntry(IF lastCall.args.req.source_type = "note" THEN notes ELSE errors,
                 lastCall.args.req.source_id.value,
                 AccessUserIds(lastCall.args.req.user)) # 0

AiMode == IsGeneration /\ lastCall.args.req.mode \in {"ai", ""}

\* C1: in ai mode the returned node set has at most 34 nodes, root included.
\* The merge loop tests the cap before an edge and then may create both its
\* parent and its child, so 35 nodes are reached.
NodeCapHolds ==
    (AiMode /\ lastResult.status = 200) => Cardinality(lastResult.nodes) <= NodeCap

\* C2: a call of get_or_create_knowledge_node that repeats the arguments
\* (owner, subject, name) of the call before it returns the same node id,
\* adds no row, leaves created_at as it was and advances last_seen_at.
UpsertIsStable ==
    [][(/\ lastCall.op = "get_or_create"
        /\ lastResult.id # 0
        /\ ops'.calls = ops.calls + 1
        /\ lastCall' = lastCall)
       => (/\ lastResult'.id = lastResult.id
           /\ Len(knowledge_nodes') = Len(knowledge_nodes)
           /\ knowledge_nodes'[lastResult.id].created_at
                  = knowledge_nodes[lastResult.id].created_at
           /\ knowledge_nodes'[lastResult.id].last_seen_at
                  > knowledge_nodes[lastResult.id].last_seen_at)]_vars

\* a second call with the arguments of the first has returned a node
UpsertRepeated ==
    lastCall.op = "get_or_create" /\ lastResult.repeat /\ lastResult.id # 0

\* C3: no two stored knowledge nodes share (user_id, subject, name).
NodesUnique ==
    \A i, j \in 1..Len(knowledge_nodes) :
        (/\ i # j
         /\ knowledge_nodes[i].user_id = knowledge_nodes[j].user_id
         /\ knowledge_nodes[i].subject = knowledge_nodes[j].subject)
        => knowledge_nodes[i].name # knowledge_nodes[j].name

\* an ai-mode generation asked for a root name that another node of the
\* owner and subject already has, and it has answered
RenameRefused ==
    /\ AiMode
    /\ lastResult.status = 200
    /\ run_gemini_mindmap_tree(lastCall.args.ai).ok
    /\ LET asked == _normalize_concept_name(lastCall.args.ai.payload.tree.name)
           root == knowledge_nodes[lastResult.root_id]
       IN  /\ asked # <<>>
           /\ root.name # asked
           /\ \E i \in 1..Len(knowledge_nodes) :
                 /\ knowledge_nodes[i].name = asked
                 /\ knowledge_nodes[i].user_id = root.user_id
                 /\ knowledge_nodes[i].subject = root.subject

\* C4: at most one summary job of an entry is running at any time, and a
\* start_note_summary_job call made while a job of its entry is running
\* returns False and starts no job.
SummaryJobsAreExclusive ==
    /\ [](\A e \in Entries : Cardinality(LiveJobs(e)) <= 1)
    /\ [][\A r \in Requests :
             (/\ reqs[r].pc = "start"
              /\ reqs'[r].pc # "start"
              /\ LiveJobs(reqs[r].entry) # {})
             => (/\ reqs'[r].pc = "done"
                 /\ lastStart' = FALSE
                 /\ jobs' = jobs
                 /\ started' = started
                 /\ running' = running)]_vars

\* a trigger has found the job of its entry still running
AlreadyRunningSeen ==
    \E r \in DOMAIN reqs :
        reqs[r].result = "already_running" /\ LiveJobs(reqs[r].entry) # {}

\* C5: a request naming an existing, accessible record is answered with
\* status 200 and a node set that holds the root.  A title made of
\* punctuation only normalizes to the empty name: no root node is made and
\* the answer is status 500.
ValidRequestSucceeds ==
    ValidGeneration => (lastResult.status = 200 /\ lastResult.root_id \in lastResult.nodes)

\* the record the request served last is about, and its seed concepts
RequestedEntry ==
    LET recs == IF lastCall.args.req.source_type = "note" THEN notes ELSE errors
    IN  recs[FindEntry(recs, lastCall.args.req.source_id.value,
                       AccessUserIds(lastCall.args.req.user))]

SeedsOfRequest ==
    IF lastCall.args.req.source_type = "note"
    THEN _extract_note_concepts(RequestedEntry).concepts
    ELSE _extract_error_concepts(RequestedEntry).concepts

\* C6: when tree generation fails in ai mode the request succeeds with the
\* flat graph: the root and one edge root -> seed for each seed concept.
\* It does not succeed when the title normalizes to the empty name (C5).
FailedAiGivesFlatGraph ==
    (ValidGeneration /\ AiMode /\ ~run_gemini_mindmap_tree(lastCall.args.ai).ok)
    => (/\ lastResult.status = 200
        /\ Len(lastResult.edges) = Len(SeedsOfRequest)
        /\ \A i \in 1..Len(lastResult.edges) :
              /\ lastResult.edges[i].from = lastResult.root_id
              /\ knowledge_nodes[lastResult.edges[i].to].name
                     = _normalize_concept_name(SeedsOfRequest[i]))

\* C7: normalizing a normalized text changes nothing.  A text cut at 24
\* characters can end with a space or a punctuation mark, which the second
\* pass strips.
NormalizeIsIdempotent ==
    normPasses = 2 => normOut = _normalize_concept_name(normIn)

\* C8: the normalized text has at most 24 characters and neither starts
\* nor ends with whitespace.  The cut at 24 characters can leave a space at
\* the end.
NormalizedIsTrimmed ==
    normPasses = 1 =>
        /\ Len(normOut) <= NameLimit
        /\ normOut # <<>> =>
              (normOut[1] \notin Whitespace /\ normOut[Len(normOut)] \notin Whitespace)

\* C9: no returned edge has from = to.  A seed concept with the name of the
\* root resolves to the root node and the edge root -> root is returned.
NoSelfLoops ==
    (IsGeneration /\ lastResult.status = 200)
    => \A i \in 1..Len(lastResult.edges) :
          lastResult.edges[i].from # lastResult.edges[i].to

\* C10: in the co-occurrence map, b is a key of related[a] exactly when a
\* is a key of related[b], with the same weight.
RelatedIsSymmetric ==
    (IsGeneration /\ lastResult.status = 200)
    => \A p \in DOMAIN lastResult.related :
          /\ p[1] # p[2]
          /\ <<p[2], p[1]>> \in DOMAIN lastResult.related
          /\ lastResult.related[<<p[2], p[1]>>] = lastResult.related[p]

\* a generation has returned a co-occurrence map with a pair of weight 2
RelatedNonEmpty ==
    /\ IsGeneration
    /\ lastResult.status = 200
    /\ \E p \in DOMAIN lastResult.related : lastResult.related[p] >= 2

\* the ids of the stored nodes of the concepts x = [subject, concepts] of
\* one record of the owner
StoredIds(owner, x) ==
    {FindNode(Db, owner, normalize_subject(x.subject),
              _normalize_concept_name(x.concepts[i])) : i \in DOMAIN x.concepts} \ {0}

\* the number of records of the owner whose concepts have both nodes a and b
SharedRecords(owner, a, b) ==
    Cardinality({i \in DOMAIN notes :
                    /\ notes[i].user_id = owner
                    /\ {a, b} \subseteq StoredIds(owner, _extract_note_concepts(notes[i]))})
    + Cardinality({i \in DOMAIN errors :
                    /\ errors[i].user_id = owner
                    /\ {a, b} \subseteq StoredIds(owner, _extract_error_concepts(errors[i]))})

\* C11: the weight of a pair of distinct nodes in the co-occurrence map is
\* the number of records of the owner whose concepts have both nodes; a pair
\* no record has is not in the map, and no node is paired with itself.
WeightCountsSharedRecords ==
    (IsGeneration /\ lastResult.status = 200)
    => \A a, b \in DOMAIN knowledge_nodes :
          IF a # b /\ SharedRecords(RequestedEntry.user_id, a, b) > 0
          THEN /\ <<a, b>> \in DOMAIN lastResult.related
               /\ lastResult.related[<<a, b>>] = SharedRecords(RequestedEntry.user_id, a, b)
          ELSE <<a, b>> \notin DOMAIN lastResult.related

\* two records share one concept: the map pairs a with b and b with c, each
\* with weight 1, and does not pair a with c
TwoRecordsShareOneConcept ==
    /\ IsGeneration
    /\ lastResult.status = 200
    /\ \E a, b, c \in DOMAIN knowledge_nodes :
          /\ a # c
          /\ <<a, b>> \in DOMAIN lastResult.related
          /\ <<b, c>> \in DOMAIN lastResult.related
          /\ <<a, c>> \notin DOMAIN lastResult.related
          /\ lastResult.related[<<a, b>>] = 1
          /\ lastResult.related[<<b, c>>] = 1

\* C12: a simple-mode request for the record of the simple-mode request
\* served just before it, whoever makes it, returns the root id, the node
\* set and the edge list the first returned, and stores no new node.
FlatGraphRepeats ==
    [][(/\ lastCall.op = "mind_map_generate"
        /\ lastResult.status = 200
        /\ lastCall'.op = "mind_map_generate"
        /\ ops'.generations = ops.generations + 1
        /\ lastCall'.args.req.source_type = lastCall.args.req.source_type
        /\ lastCall'.args.req.source_id = lastCall.args.req.source_id)
       => (/\ lastResult'.status = 200
           /\ lastResult'.root_id = lastResult.root_id
           /\ lastResult'.nodes = lastResult.nodes
           /\ lastResult'.edges = lastResult.edges
           /\ Len(knowledge_nodes') = Len(knowledge_nodes))]_vars

\* the parent has repeated the owner's simple-mode request and has been
\* given a graph with two edges or more
FlatGraphRepeated ==
    /\ IsGeneration
    /\ lastCall.args.repeat
    /\ lastCall.args.req.user = 2
    /\ lastCall.args.req.mode = "simple"
    /\ lastResult.status = 200
    /\ Len(lastResult.edges) >= 2

\* the rows A (3 mistakes, 1 note), B (3 mistakes, 2 notes), C (1 mistake)
ExampleRows ==
    {r \in {lastCall.args[i] : i \in DOMAIN lastCall.args} :
        \/ r.name = <<"A">> /\ r.mistake_count = 3 /\ r.note_count = 1
        \/ r.name = <<"B">> /\ r.mistake_count = 3 /\ r.note_count = 2
        \/ r.name = <<"C">> /\ r.mistake_count = 1 /\ r.note_count = 0}

IsExample ==
    /\ Len(lastCall.args) = 3
    /\ {r.name : r \in ExampleRows} = RankNames

\* C13: the mastery list holds the rows of the nodes, each once; of two
\* rows the one listed first has more mistakes, or as many mistakes and
\* more notes, or as many of both and a name that is not greater; rows that
\* differ in nothing but the node keep the order of the node query.  The
\* rows A (3, 1), B (3, 2), C (1, 0) are listed B, A, C.
MasteryIsRanked ==
    lastCall.op = "dashboard_summary" =>
        LET out == lastResult.mastery
        IN  /\ Len(out) = Len(lastCall.args)
            /\ {out[i] : i \in DOMAIN out} = {lastCall.args[i] : i \in DOMAIN lastCall.args}
            /\ \A i, j \in DOMAIN out :
                  i < j =>
                     \/ out[i].mistake_count > out[j].mistake_count
                     \/ /\ out[i].mistake_count = out[j].mistake_count
                        /\ out[i].note_count > out[j].note_count
                     \/ /\ out[i].mistake_count = out[j].mistake_count
                        /\ out[i].note_count = out[j].note_count
                        /\ StrLess(out[i].name, out[j].name)
                     \/ /\ out[i].mistake_count = out[j].mistake_count
                        /\ out[i].note_count = out[j].note_count
                        /\ out[i].name = out[j].name
                        /\ out[i].node_id < out[j].node_id
            /\ IsExample => [i \in 1..3 |-> out[i].name] = <<(<<"B">>), (<<"A">>), (<<"C">>)>>

\* the rows of the example, queried in the order C, A, B, have been ranked
ExampleRanked ==
    /\ lastCall.op = "dashboard_summary"
    /\ IsExample
    /\ [i \in 1..3 |-> lastCall.args[i].name] = <<(<<"C">>), (<<"A">>), (<<"B">>)>>

\* the positions of a list of candidates whose normalized text is not empty
\* and is that of no earlier candidate
FirstAppearances(cands) ==
    {i \in DOMAIN cands :
        /\ _normalize_concept_name(cands[i]) # <<>>
        /\ \A k \in 1..(i - 1) :
              _normalize_concept_name(cands[k]) # _normalize_concept_name(cands[i])}

\* out lists the normalized candidates of the first 16 of these positions
ListsFirstAppearances(out, cands) ==
    /\ Len(out) = IF Cardinality(FirstAppearances(cands)) > 16 THEN 16
                  ELSE Cardinality(FirstAppearances(cands))
    /\ \A k \in DOMAIN out :
          \E i \in FirstAppearances(cands) :
              /\ Cardinality({j \in FirstAppearances(cands) : j <= i}) = k
              /\ out[k] = _normalize_concept_name(cands[i])

\* the heading of a summary point that is not blank
HeadingOf(s) ==
    IF \E i \in DOMAIN s : s[i] = "uFF1A"
    THEN Strip(SubSeq(s, 1, (CHOOSE i \in DOMAIN s :
                                /\ s[i] = "uFF1A"
                                /\ \A k \in 1..(i - 1) : s[k] # "uFF1A") - 1))
    ELSE SubSeq(s, 1, IF Len(s) < 12 THEN Len(s) ELSE 12)

\* the headings of the summary points that are not blank, in their order
Headings(points) ==
    LET kept == SelectSeq(points, LAMBDA p : Strip(p) # <<>>)
    IN  [i \in DOMAIN kept |-> HeadingOf(Strip(kept[i]))]

\* C14: for a note whose summary is an object, the extractor returns the
\* normalized subject and the normalized key terms that are not empty, each
\* once, in the order of first appearance, 16 at most; when no key term
\* gives a concept it returns the headings of the summary points in the
\* same way.
NoteConceptsFromKeyTerms ==
    (lastCall.op = "_extract_note_concepts" /\ lastCall.args.has_summary)
    => /\ lastResult.subject = normalize_subject(lastCall.args.subject)
       /\ IF FirstAppearances(lastCall.args.key_terms) # {}
          THEN ListsFirstAppearances(lastResult.concepts, lastCall.args.key_terms)
          ELSE ListsFirstAppearances(lastResult.concepts,
                                     Headings(lastCall.args.summary_points))

\* a note with a repeated key term, an empty one and more than 16 others
\* has been given its 16 concepts
KeyTermsCapped ==
    /\ lastCall.op = "_extract_note_concepts"
    /\ lastCall.args.has_summary
    /\ Cardinality(FirstAppearances(lastCall.args.key_terms)) > 16
    /\ Cardinality(FirstAppearances(lastCall.args.key_terms)) < Len(lastCall.args.key_terms) - 1
    /\ Len(lastResult.concepts) = 16

\* the analysis objects that the text holds, bare, inside other text or
\* wrapped in a fence
HeldObjects(text) ==
    {obj \in AnalysisObjects : text \in HoldingTexts(JsonText(obj))}

\* C15: for an ai_analysis text that holds a JSON object, possibly wrapped
\* in a triple-backtick fence, the extractor returns the normalized concept
\* of each mistakes item, then the normalized key points, the empty ones
\* dropped, each once at its first place, 16 at most.
ErrorConceptsFromAnalysis ==
    lastCall.op = "_extract_error_concepts"
    => \A obj \in HeldObjects(lastCall.args.ai_analysis) :
          ListsFirstAppearances(lastResult.concepts, obj.mistakes \o obj.key_points)

\* the status with which the request is to be rejected, 0 when it is not:
\* 400 for a source type other than note and error_book, 400 for an id that
\* is not a number, 404 when no record of that id is accessible to the caller
RejectionStatus(req) ==
    IF req.source_type \notin {"note", "error_book"} THEN 400
    ELSE IF ~req.source_id.numeric THEN 400
    ELSE IF \E i \in DOMAIN SourceRecords(notes, errors, req.source_type) :
               /\ SourceRecords(notes, errors, req.source_type)[i].id = req.source_id.value
               /\ SourceRecords(notes, errors, req.source_type)[i].user_id
                      \in AccessUserIds(req.user)
         THEN 0
    ELSE 404

\* C16: a mind-map request with a source type other than note and
\* error_book, an id that is not a number, or the id of no record accessible
\* to the caller is answered 400, 400 or 404 without a generation call and
\* leaves the knowledge nodes and the snapshots as they were.
RejectionsHaveNoEffect ==
    [][(/\ lastCall'.op = "mind_map_generate"
        /\ ops'.generations = ops.generations + 1
        /\ RejectionStatus(lastCall'.args.req) # 0)
       => /\ lastResult'.status = RejectionStatus(lastCall'.args.req)
          /\ lastResult'.ai_calls = 0
          /\ knowledge_nodes' = knowledge_nodes
          /\ snapshots' = snapshots]_vars

\* a request in ai mode for a record that does not exist was answered 404
\* while nodes were stored and a generation call would have yielded a tree
RejectedWithAiReady ==
    /\ IsGeneration
    /\ lastResult.status = 404
    /\ lastCall.args.req.mode = "ai"
    /\ lastCall.args.ai = ReadyAi
    /\ knowledge_nodes # <<>>

\* both calls are over, were for the same key, and each made its query
\* before the other's insert was committed: neither found a row
BothMissed ==
    /\ callers # <<>>
    /\ \A c \in Callers : callers[c].pc = "done" /\ callers[c].found = 0
    /\ callers[1].args.owner = callers[2].args.owner
    /\ normalize_subject(callers[1].args.subject) = normalize_subject(callers[2].args.subject)
    /\ _normalize_concept_name(callers[1].args.name)
           = _normalize_concept_name(callers[2].args.name)
    /\ _normalize_concept_name(callers[1].args.name) # <<>>

\* the stored rows that have the key of caller c
RowsOfCaller(c) ==
    {i \in DOMAIN knowledge_nodes :
        /\ knowledge_nodes[i].user_id = callers[c].args.owner
        /\ knowledge_nodes[i].subject = normalize_subject(callers[c].args.subject)
        /\ knowledge_nodes[i].name = _normalize_concept_name(callers[c].args.name)}

\* C17 as stated: two concurrent calls for the same unseen key, each making
\* its lookup before the other's insert commits, both insert and leave two
\* stored rows with that key.
RaceStoresTwoRows == BothMissed => Cardinality(RowsOfCaller(1)) = 2

\* C17, amended: of two such calls one inserts and the commit of the other
\* is refused by the unique constraint and raises; one row with that key is
\* stored.
RaceStoresOneRow ==
    BothMissed
    => /\ Cardinality(RowsOfCaller(1)) = 1
       /\ callers[1].raised # callers[2].raised

\* two calls for the same unseen key are over and neither had found a row
RaceHappened == BothMissed /\ knowledge_nodes # <<>>

\* the returned nodes that carry the name of the seed concept
NodesOfSeed(seed) ==
    {n \in lastResult.nodes : knowledge_nodes[n].name = _normalize_concept_name(seed)}

\* C18: when a valid AI tree is merged, every seed concept of the source
\* record has a node in the returned node set and that node is the target
\* of a returned edge, whatever the size of the AI tree.  The seed loop
\* stops once 34 nodes are returned, so a tree that fills the node set
\* leaves the seeds out.
SeedsArePreserved ==
    (/\ ValidGeneration
     /\ AiMode
     /\ run_gemini_mindmap_tree(lastCall.args.ai).ok
     /\ lastResult.status = 200)
    => \A i \in DOMAIN SeedsOfRequest :
          \E n \in NodesOfSeed(SeedsOfRequest[i]) :
              \E e \in DOMAIN lastResult.edges : lastResult.edges[e].to = n

\* a generation call has been made with the API key and the library present
GenerationCalled ==
    /\ lastCall.op \in {"run_gemini_mindmap_tree", "run_gemini_mindmap_compare"}
    /\ lastCall.args.configured

\* the failures whose message matches the transient vocabulary
TransientFailures == {"transient", "timeout", "tls"}

\* the failures
Failures == {"transient", "timeout", "tls", "permanent"}

\* at most 3 attempts are made, and a failure that is not transient, or a
\* transient failure of the third attempt, is the last attempt and makes
\* the call fail
FailurePropagates ==
    /\ lastResult.calls <= 3
    /\ \A k \in 1..lastResult.calls :
          (\/ lastCall.args.attempts[k] \in Failures \ TransientFailures
           \/ (lastCall.args.attempts[k] \in TransientFailures /\ k = 3))
          => (lastResult.calls = k /\ ~lastResult.ok)

Malformed ==
    lastCall.args.payload
        \in { [type |-> "other"], Payload(NotAnObject), Payload(Leaf(<<"u0020">>, "chapter")),
              [type |-> "dict", comparisons |-> [type |-> "other"]] }

\* attempt k returned without raising and what it returned cannot be used;
\* an empty text is counted when empty_counts
ReturnedUnusable(k, empty_counts) ==
    \/ lastCall.args.attempts[k] = "text" /\ Malformed
    \/ lastCall.args.attempts[k] = "empty" /\ empty_counts

WellFormedObjects ==
    {JsonText(obj) : obj \in AnalysisObjects}
    \union {JsonMistake(c) : c \in {X, Y, NoneValue}}

\* the positions of the text at which a well-formed object starts
ObjectStarts(text) ==
    {i \in DOMAIN text :
        \E w \in WellFormedObjects :
            i + Len(w) - 1 <= Len(text) /\ SubSeq(text, i, i + Len(w) - 1) = w}

\* the well-formed object that starts at position i of the text
ObjectAt(text, i) ==
    CHOOSE w \in WellFormedObjects :
        /\ i + Len(w) - 1 <= Len(text)
        /\ SubSeq(text, i, i + Len(w) - 1) = w
        /\ \A v \in WellFormedObjects :
              (i + Len(v) - 1 <= Len(text) /\ SubSeq(text, i, i + Len(v) - 1) = v)
              => Len(v) <= Len(w)

\* C21: for a text in which a well-formed JSON object is embedded,
\* _extract_first_json_object returns the first such object; it returns
\* nothing only when there is none.  The scan starts at the first opening
\* brace of the text, whether or not an object starts there.
ScannerFindsFirstObject ==
    (lastCall.op = "_extract_first_json_object" /\ ObjectStarts(lastCall.args) # {})
    => lastResult.object =
           ObjectAt(lastCall.args,
                    CHOOSE i \in ObjectStarts(lastCall.args) :
                        \A k \in ObjectStarts(lastCall.args) : i <= k)

\* the subject normalized last is a text without outer whitespace and
\* without one of the prefixes
PlainSubject ==
    /\ lastCall.op = "normalize_subject"
    /\ lastCall.args # NoneValue
    /\ lastCall.args # <<>>
    /\ Strip(lastCall.args) = lastCall.args
    /\ \A i \in DOMAIN SubjectPrefixes : ~StartsWith(lastCall.args, SubjectPrefixes[i])

\* the text the rules are applied to: the subject without outer whitespace
\* and without the first of the prefixes it starts with
SubjectText ==
    IF \E i \in DOMAIN SubjectPrefixes : StartsWith(Strip(lastCall.args), SubjectPrefixes[i])
    THEN Strip(SubSeq(Strip(lastCall.args),
                      Len(SubjectPrefixes[FirstOf({i \in DOMAIN SubjectPrefixes :
                              StartsWith(Strip(lastCall.args), SubjectPrefixes[i])})]) + 1,
                      Len(Strip(lastCall.args))))
    ELSE Strip(lastCall.args)

\* a subject that is a text has been normalized
SubjectNormalized == lastCall.op = "normalize_subject" /\ lastCall.args # NoneValue

\* the labels each rule allows for the text s
ExactLabels(s) == {SUBJECT_CHOICES[i] : i \in {k \in DOMAIN SUBJECT_CHOICES : SUBJECT_CHOICES[k] = s}}
AliasLabels(s) ==
    {_SUBJECT_ALIASES[i][2] : i \in {k \in DOMAIN _SUBJECT_ALIASES : _SUBJECT_ALIASES[k][1] = s}}
AliasInLabels(s) ==
    {_SUBJECT_ALIASES[i][2] :
        i \in {k \in DOMAIN _SUBJECT_ALIASES : Contains(s, _SUBJECT_ALIASES[k][1])}}
EnglishLabels(s) ==
    {EnglishHints[i][2] : i \in {k \in DOMAIN EnglishHints : Contains(Lower(s), EnglishHints[k][1])}}
ChoiceInLabels(s) ==
    {SUBJECT_CHOICES[i] :
        i \in {k \in DOMAIN SUBJECT_CHOICES :
                  SUBJECT_CHOICES[k] # Unclassified /\ Contains(s, SUBJECT_CHOICES[k])}}

\* the labels of the first rule of the list that allows any, else the
\* fallback label
RECURSIVE EarliestRule(_)
EarliestRule(rules) ==
    IF rules = <<>> THEN {Unclassified}
    ELSE IF Head(rules) # {} THEN Head(rules)
    ELSE EarliestRule(Tail(rules))

\* C22 as stated: the rules apply in the order exact canonical label, exact
\* alias, alias contained, English keyword, canonical label contained, else
\* the fallback; the label is that of the earliest rule that applies.
AliasContainedBeforeEnglish ==
    SubjectNormalized
    => lastResult.label \in
           EarliestRule(<<ExactLabels(SubjectText), AliasLabels(SubjectText),
                          AliasInLabels(SubjectText), EnglishLabels(SubjectText),
                          ChoiceInLabels(SubjectText)>>)

\* C22, amended: the English keywords are tested before the aliases
\* contained in the text.
EnglishBeforeAliasContained ==
    SubjectNormalized
    => lastResult.label \in
           EarliestRule(<<ExactLabels(SubjectText), AliasLabels(SubjectText),
                          EnglishLabels(SubjectText), AliasInLabels(SubjectText),
                          ChoiceInLabels(SubjectText)>>)

\* a subject with an English keyword and an alias in it has been given the
\* label of the keyword
EnglishWonOverAlias ==
    /\ PlainSubject
    /\ lastCall.args = <<"M", "a", "t", "h", "u4F5C", "u6587", "x">>
    /\ lastResult.label = <<"u6570", "u5B66">>

\* the canonical labels
SubjectChoices == {SUBJECT_CHOICES[i] : i \in DOMAIN SUBJECT_CHOICES}

\* C23: whatever subject is given, None and the empty text included, the
\* label returned is one of SUBJECT_CHOICES, and so is every value of the
\* alias table.
LabelIsASubjectChoice ==
    /\ \A i \in DOMAIN _SUBJECT_ALIASES : _SUBJECT_ALIASES[i][2] \in SubjectChoices
    /\ lastCall.op = "normalize_subject" => lastResult.label \in SubjectChoices

\* a text that is neither a canonical label nor an alias nor empty has been
\* normalized
UnlistedSubjectNormalized ==
    /\ SubjectNormalized
    /\ SubjectText # <<>>
    /\ ExactLabels(SubjectText) = {}
    /\ AliasLabels(SubjectText) = {}
    /\ lastResult.label \in SubjectChoices

\* C24: a call changes the kind of a stored node only when the node is the
\* one the call found, its kind was 'concept' and the requested kind is
\* another one; a node of kind chapter, method or mistake keeps its kind.
KindOnlyUpgradedFromConcept ==
    [][\A i \in DOMAIN knowledge_nodes :
          knowledge_nodes'[i].kind # knowledge_nodes[i].kind
          => /\ knowledge_nodes[i].kind = "concept"
             /\ lastResult'.id = i
             /\ knowledge_nodes'[i].kind = lastResult'.kind
             /\ lastResult'.kind \in {"chapter", "method", "mistake"}]_vars

\* a node found by a third call, which asked for the kind method, is a
\* chapter
ChapterKeptItsKind ==
    /\ lastCall.op = "get_or_create"
    /\ lastResult.id # 0
    /\ lastResult.kind = "method"
    /\ knowledge_nodes[lastResult.id].kind = "chapter"
    /\ knowledge_nodes[lastResult.id].created_at + 1 < knowledge_nodes[lastResult.id].last_seen_at

ContentExtracted ==
    lastCall.op \in {"_extract_note_concepts", "_extract_error_concepts"}

\* the stored content parses to an object: json.loads returns a dict, or
\* fails and ast.literal_eval returns one
ObjectParsed ==
    /\ lastCall.args.has_text
    /\ \/ ~lastCall.args.json.raised /\ lastCall.args.json.value.type = "dict"
       \/ /\ lastCall.args.json.raised
          /\ ~lastCall.args.literal.raised
          /\ lastCall.args.literal.value.type = "dict"

\* C26: whatever the stored content, empty, malformed, a value that is not
\* an object, lists with items of any type, the extractors do not raise;
\* when no object is parsed they return the normalized subject and no
\* concept.
ExtractorsNeverRaise ==
    ContentExtracted
    => /\ ~lastResult.raised
       /\ lastResult.subject = normalize_subject(lastCall.args.subject)
       /\ ~ObjectParsed => lastResult.concepts = <<>>

\* the mistakes of an error entry held a number and a text before an item
\* whose concept was kept
MistakesOfAnyTypeRead ==
    /\ lastCall.op = "_extract_error_concepts"
    /\ ObjectParsed
    /\ lastCall.args.json.value =
           PyDict(<<PyEntry(MistakesKey, PyList(<<PyInt(<<"5">>), PyStr(Y)>>)),
                    PyEntry(KeyPointsKey, PyList(<<PyInt(<<"5">>), PyStr(Y)>>))>>)
    /\ lastResult.concepts = <<<<"5">>, Y>>

\* C27: in every result, in both modes, each returned node other than the
\* root is the target of a returned edge.  A child without a name is
\* skipped while its own children become parents by name, so nodes are
\* returned that no edge leads to.
NoOrphanNodes ==
    (IsGeneration /\ lastResult.status = 200)
    => \A n \in lastResult.nodes \ {lastResult.root_id} :
          \E e \in DOMAIN lastResult.edges : lastResult.edges[e].to = n

\* C28: in every result the root id is in the returned node set and both
\* ends of every returned edge are ids of returned nodes.
EdgeEndsAreReturned ==
    (IsGeneration /\ lastResult.status = 200)
    => /\ lastResult.root_id \in lastResult.nodes
       /\ \A e \in DOMAIN lastResult.edges :
             /\ lastResult.edges[e].from \in lastResult.nodes
             /\ lastResult.edges[e].to \in lastResult.nodes

\* a tree has been merged into a result with an edge that does not start at
\* the root
EdgeBelowAChild ==
    /\ ValidGeneration
    /\ AiMode
    /\ lastResult.status = 200
    /\ \E e \in DOMAIN lastResult.edges :
          /\ lastResult.edges[e].from # lastResult.root_id
          /\ lastResult.edges[e].to # lastResult.root_id

\* the summarize requests for entry e that have yet to start or be refused a
\* job
StartingRequests(e) ==
    {r \in Requests : reqs[r].entry = e /\ reqs[r].pc \in {"start", "spawn"}}

\* no thread of a job for entry e has failed to start
ThreadsStarted(e) ==
    \A r \in Requests : ~(reqs[r].entry = e /\ reqs[r].result = "start_failed")

\* C29: an entry is never left in status 'summarizing' with no job in
\* flight for it and no request about to start one, every thread having
\* started.  A request that commits 'summarizing' between the commit of a
\* running job and the discard in its finally block is refused a job, and
\* the entry stays in 'summarizing'.
NeverLeftSummarizing ==
    \A e \in Entries :
        (noteStatus[e] = "summarizing" /\ ThreadsStarted(e))
        => (LiveJobs(e) # {} \/ StartingRequests(e) # {})

\* the step answers the approve or reject of a pending request by the
\* student it is addressed to
AnswersPending ==
    /\ lastCall'.op = "bind_request_respond"
    /\ lastCall'.args.request_id \in DOMAIN bind_requests
    /\ bind_requests[lastCall'.args.request_id].status = "pending"
    /\ bind_requests[lastCall'.args.request_id].student_id = lastCall'.args.user
    /\ lastCall'.args.action \in {"approve", "reject"}
    /\ <<lastCall, lastResult, bind_requests, linked_user_id>>
           # <<lastCall', lastResult', bind_requests', linked_user_id'>>

\* C30: the approve or reject of a pending request by its student succeeds
\* and moves that request, and no other, to approved or rejected; a request
\* that is not pending is not changed; each parent has at most one pending
\* request for each student.  The unique constraint of the table covers the
\* status, so the second request of a parent that a student rejects, or
\* approves, cannot be committed.
BindLifecycle ==
    [][/\ AnswersPending
          => /\ lastResult'.status = 200
             /\ \A i \in DOMAIN bind_requests' :
                   IF i = lastCall'.args.request_id
                   THEN bind_requests'[i].status = NewStatus(lastCall'.args.action)
                   ELSE i \in DOMAIN bind_requests /\ bind_requests'[i] = bind_requests[i]
       /\ \A i \in DOMAIN bind_requests :
             bind_requests[i].status # "pending" => bind_requests'[i] = bind_requests[i]
       /\ \A parent \in BindUsers, student \in BindUsers :
             Cardinality(PendingOf(bind_requests', parent, student)) <= 1]_vars

====
